---- MODULE Spec2Model ----
(***************************************************************************)
(* CloudForge: the in-memory project store (MemStorage), the REST handlers *)
(* registered by registerRoutes, and the wizard client that drives them.   *)
(*                                                                         *)
(* Scheduling.  Every handler is an async function.  A handler runs        *)
(* synchronously up to its first await; each await of a storage call puts  *)
(* the rest of the handler at the tail of the microtask queue.  Handlers   *)
(* are started by macrotasks (request callbacks, timers): several may      *)
(* start back to back, but once the microtask queue has begun to drain it  *)
(* drains completely, in FIFO order, before the next macrotask runs.       *)
(***************************************************************************)
EXTENDS Integers, Sequences, FiniteSets, TLC

VARIABLES
    projects,      \* MemStorage.projects: id -> Project
    currentId,     \* MemStorage.currentId
    uploadsDir,    \* names of the files present in uploads/
    reqs,          \* requests being handled: request number -> handler frame
    microtasks,    \* FIFO queue of request numbers whose continuation is ready
    draining,      \* TRUE while the microtask queue is being drained
    clock,         \* number of requests started so far (also the logical time)
    last,          \* the step taken last: its request frame, and the response sent
    returnedIds,   \* ids carried by the successful create responses, in order
    inbox,         \* the responses sent to the wizard's mutations, in order
    handled,       \* the positions of inbox whose callback has run
    mounts,        \* number of step components mounted since the page load
    currentStep,   \* Home.currentStep
    projectId,     \* Home.projectId
    files,         \* ProjectInput.files
    sessionProjects, \* ids of the projects created since the page was loaded
    templatesStep, \* state of the mounted Templates component
    deploymentStep, \* state of the mounted Deployment component
    timers,        \* the setTimeout callbacks of Templates that are due
    chosenProvider, \* provider of the template selected when Deploy Now was pressed
    ai,            \* the runs of the AI generators: response and outcome
    analysis,      \* generateAllAIAnalysis: the five promises and Promise.all
    requestLimit   \* the number of requests the wizard sends before the user stops

serverVars == <<projects, currentId, uploadsDir, reqs, microtasks, draining,
                clock, last, returnedIds, inbox>>
wizardVars == <<handled, mounts, currentStep, projectId, files, sessionProjects,
                templatesStep, deploymentStep, timers, chosenProvider,
                requestLimit>>
vars == <<projects, currentId, uploadsDir, reqs, microtasks, draining,
          clock, last, returnedIds, inbox, handled, mounts, currentStep,
          projectId, files, sessionProjects, templatesStep, deploymentStep,
          timers, chosenProvider, ai, analysis, requestLimit>>

---------------------------------------------------------------------------
(* Bounds of the model. *)

\* Requests started in the open server specification.
MaxRequests == 3

\* Requests the wizard sends before the model stops it: one pass through
\* the four steps takes four (create, configuration, templates, deploy).
MaxWizardRequests == 4

\* The requests of a session in which the user goes back once and submits
\* the project form a second time before reaching the deployment: two
\* creates, the configuration, the templates and the deploy.
MaxLongSessionRequests == 5

---------------------------------------------------------------------------
(* JavaScript values.  Every value that may be null, undefined or of more  *)
(* than one type carries its type tag.                                     *)

Null == [t |-> "null"]
Undefined == [t |-> "undefined"]
Str(s) == [t |-> "string", v |-> s]
Bool(b) == [t |-> "boolean", v |-> b]
Num(n) == [t |-> "number", v |-> n]
Arr(s) == [t |-> "array", v |-> s]
Obj(f) == [t |-> "object", v |-> f]
NaN == [t |-> "NaN"]

IsString(x) == x.t = "string"
IsBoolean(x) == x.t = "boolean"

\* o.k for an object literal o: undefined when the key is absent.
Get(o, k) == IF k \in DOMAIN o THEN o[k] ELSE Undefined

\* The falsy values that occur here: null, undefined, "" and false.
Falsy(x) ==
    \/ x.t \in {"null", "undefined", "NaN"}
    \/ x.t = "string" /\ x.v = ""
    \/ x.t = "boolean" /\ x.v = FALSE
    \/ x.t = "number" /\ x.v = 0

\* x || null
OrNull(x) == IF Falsy(x) THEN Null ELSE x

\* A merge that descends into the configuration objects both sides hold
\* (a deep merge).
Spread_Deep(p, u) ==
    [k \in DOMAIN p \cup DOMAIN u |->
        IF k \notin DOMAIN u THEN p[k]
        ELSE IF k \in DOMAIN p /\ k = "configuration"
                /\ p[k].t = "object" /\ u[k].t = "object"
             THEN [t |-> "object",
                   v |-> [j \in DOMAIN p[k].v \cup DOMAIN u[k].v |->
                            IF j \in DOMAIN u[k].v THEN u[k].v[j] ELSE p[k].v[j]]]
        ELSE u[k]]

\* { ...p, ...u }
Spread(p, u) ==
    [k \in DOMAIN p \cup DOMAIN u |-> IF k \in DOMAIN u THEN u[k] ELSE p[k]]

\* parseInt of a path parameter, given as its characters: the value of the
\* leading decimal digits after an optional sign, NaN when there are none.
Digits == <<"0", "1", "2", "3", "4", "5", "6", "7", "8", "9">>
IsDigit(c) == \E i \in 1..10 : Digits[i] = c
DigitValue(c) == (CHOOSE i \in 1..10 : Digits[i] = c) - 1

RECURSIVE DigitPrefix(_, _)
DigitPrefix(s, acc) ==
    IF s = <<>> \/ ~IsDigit(Head(s)) THEN acc
    ELSE DigitPrefix(Tail(s), acc * 10 + DigitValue(Head(s)))

parseInt(s) ==
    LET neg == s # <<>> /\ Head(s) = "-"
        body == IF s # <<>> /\ Head(s) \in {"-", "+"} THEN Tail(s) ELSE s
    IN  IF body = <<>> \/ ~IsDigit(Head(body)) THEN NaN
        ELSE Num(IF neg THEN 0 - DigitPrefix(body, 0) ELSE DigitPrefix(body, 0))

\* `${n}` for a number n >= 0: its decimal digits.
RECURSIVE numberToString(_)
numberToString(n) ==
    IF n < 10 THEN <<Digits[n + 1]>>
    ELSE Append(numberToString(n \div 10), Digits[(n % 10) + 1])

---------------------------------------------------------------------------
(* shared/schema.ts *)

InsertProjectKeys ==
    {"name", "description", "techStack", "expectedUsers", "uploadedFiles",
     "configuration", "selectedProvider"}

\* insertProjectSchema.parse accepts: name, description and expectedUsers are
\* strings; techStack and selectedProvider are strings, null or absent; the
\* two jsonb columns take any JSON value.
insertProjectSchemaAccepts(body) ==
    /\ \A k \in {"name", "description", "expectedUsers"} : IsString(Get(body, k))
    /\ \A k \in {"techStack", "selectedProvider"} :
           Get(body, k).t \in {"string", "null", "undefined"}

\* The parsed value keeps the picked keys only.
insertProjectSchemaParse(body) ==
    [k \in DOMAIN body \cap InsertProjectKeys |-> body[k]]

ConfigStringKeys ==
    {"concurrentUsers", "responseTime", "databaseType", "dataVolume",
     "sslCertificate", "region", "autoScaling", "environmentStrategy"}
ConfigBooleanKeys ==
    {"autoBackups", "ddosProtection", "gdprCompliance", "monitoring"}
ConfigKeys == ConfigStringKeys \cup ConfigBooleanKeys

configurationSchemaAccepts(body) ==
    /\ \A k \in ConfigStringKeys : IsString(Get(body, k))
    /\ \A k \in ConfigBooleanKeys : IsBoolean(Get(body, k))

\* z.object strips the keys the schema does not name.
configurationSchemaParse(body) == [k \in ConfigKeys |-> body[k]]

\* aiTemplateSchema: z.enum for the provider, z.string(), z.number() and
\* z.array(z.string()) for the other fields; a missing key is undefined and
\* is rejected.
IsStringArray(x) ==
    x.t = "array" /\ \A i \in 1..Len(x.v) : IsString(x.v[i])

aiTemplateSchemaAccepts(template) ==
    /\ template.provider \in {"aws", "gcp", "azure"}
    /\ IsString(template.templateCode)
    /\ template.estimatedCost.t = "number"
    /\ IsString(template.reasoning)
    /\ IsStringArray(template.optimizations)
    /\ IsStringArray(template.securityConsiderations)
    /\ IsStringArray(template.scalabilityFeatures)

---------------------------------------------------------------------------
(* MemStorage *)

\* this.projects.get(id)
getProject(id) ==
    IF id.t = "number" /\ id.v \in DOMAIN projects THEN projects[id.v]
    ELSE Undefined

\* A createProject that takes a project with a provider to be under way.
NewProject_Deploying(insertProject, id, now) ==
    [id |-> id,
     name |-> insertProject.name,
     description |-> insertProject.description,
     techStack |-> OrNull(Get(insertProject, "techStack")),
     expectedUsers |-> insertProject.expectedUsers,
     uploadedFiles |->
         IF Get(insertProject, "uploadedFiles").t = "array"
         THEN insertProject.uploadedFiles ELSE Null,
     configuration |-> OrNull(Get(insertProject, "configuration")),
     selectedProvider |-> OrNull(Get(insertProject, "selectedProvider")),
     deploymentStatus |->
         IF Falsy(Get(insertProject, "selectedProvider"))
         THEN "pending" ELSE "deploying",
     createdAt |-> now]

\* The record createProject builds for the parsed body, the id and the time.
NewProject(insertProject, id, now) ==
    [id |-> id,
     name |-> insertProject.name,
     description |-> insertProject.description,
     techStack |-> OrNull(Get(insertProject, "techStack")),
     expectedUsers |-> insertProject.expectedUsers,
     uploadedFiles |->
         IF Get(insertProject, "uploadedFiles").t = "array"
         THEN insertProject.uploadedFiles ELSE Null,
     configuration |-> OrNull(Get(insertProject, "configuration")),
     selectedProvider |-> OrNull(Get(insertProject, "selectedProvider")),
     deploymentStatus |-> "pending",
     createdAt |-> now]

\* A createProject that forgets to advance the counter.
NextId_Stuck(id) == id

\* currentId after createProject has taken its id (this.currentId++).
NextId(id) == id + 1

\* What updateProject returns: the merged record, or undefined.
updateProjectResult(id, updates) ==
    IF getProject(id) = Undefined THEN Undefined
    ELSE Spread(getProject(id), updates)

\* An updateProject that stores the updates under an id it does not hold.
updateProjectStore_Upsert(id, updates) ==
    IF id.t # "number" THEN projects
    ELSE [k \in DOMAIN projects \cup {id.v} |->
             IF k # id.v THEN projects[k]
             ELSE IF k \in DOMAIN projects THEN Spread(projects[k], updates)
             ELSE updates]

\* The map after updateProject(id, updates).
updateProjectStore(id, updates) ==
    IF getProject(id) = Undefined THEN projects
    ELSE [projects EXCEPT ![id.v] = Spread(projects[id.v], updates)]

---------------------------------------------------------------------------
(* Request inputs. *)

EmptyObject == [k \in {} |-> Undefined]

MinimalBody ==
    [name |-> Str("Shop"), description |-> Str("an online shop"),
     expectedUsers |-> Str("1k-10k")]

\* Every picked key is set, and two keys the schema does not pick.
FullBody ==
    [name |-> Str("blog"), description |-> Str("a personal blog"),
     techStack |-> Str("node"), expectedUsers |-> Str("0-1k"),
     uploadedFiles |-> Arr(<<Str("seed.png")>>),
     configuration |-> Obj([legacy |-> Str("on"), region |-> Str("mars")]),
     selectedProvider |-> Str("heroku"),
     deploymentStatus |-> Str("deploying"), id |-> Num(40)]

\* No name: insertProjectSchema rejects it.
NamelessBody ==
    [description |-> Str("an online shop"), expectedUsers |-> Str("1k-10k")]

CreateBodies == {MinimalBody, FullBody, NamelessBody}

\* Path parameters, as their characters.
IdParams == {<<"1">>, <<"2">>, <<"x">>}

ConfigA ==
    [concurrentUsers |-> Str("100"), responseTime |-> Str("fast"),
     databaseType |-> Str("postgres"), dataVolume |-> Str("small"),
     autoBackups |-> Bool(TRUE), sslCertificate |-> Str("auto"),
     region |-> Str("us-east"), ddosProtection |-> Bool(TRUE),
     gdprCompliance |-> Bool(FALSE), monitoring |-> Bool(TRUE),
     autoScaling |-> Str("on"), environmentStrategy |-> Str("single")]

\* Another valid configuration, with a key the schema does not name.
ConfigB ==
    Spread(ConfigA, [region |-> Str("eu-west"), autoBackups |-> Bool(FALSE),
                     legacy |-> Str("off")])

\* autoBackups is not a boolean: configurationSchema rejects it.
ConfigBad == Spread(ConfigA, [autoBackups |-> Str("yes")])

ConfigBodies == {ConfigA, ConfigB, ConfigBad}

DeployBodies ==
    {[provider |-> Str("aws")], [provider |-> Str("heroku")], EmptyObject}

\* A file of a multipart request: its type and its size in MB.
Png == [mimetype |-> "image/png", size |-> 1]
Gif == [mimetype |-> "image/gif", size |-> 1]
BigPdf == [mimetype |-> "application/pdf", size |-> 11]
Pngs(k) == [i \in 1..k |-> Png]

\* upload.array('files', 5)
UploadMaxCount == 5
\* limits.fileSize, in MB
FileSizeLimit == 10
allowedTypes == {"image/png", "image/jpeg", "image/jpg", "application/pdf"}

UploadBatches ==
    {<<Png>>, Pngs(UploadMaxCount), Pngs(UploadMaxCount + 1),
     <<Png, Gif>>, <<BigPdf>>}

\* Math.floor(Math.random() * 100): the two ends of its range.
RandomProgress == {0, 99}

---------------------------------------------------------------------------
(* The upload middleware (multer). *)

\* Whether multer rejects the i-th file: one file too many for the field, a
\* type the fileFilter refuses, or a file over the size limit.
Rejected(upfiles, i) ==
    \/ i > UploadMaxCount
    \/ upfiles[i].mimetype \notin allowedTypes
    \/ upfiles[i].size > FileSizeLimit

\* The name of the error multer passes to next(), "" when it accepts the
\* request.  The first rejected file decides; the fileFilter's own error is a
\* plain Error, the limits raise a MulterError.
multerError(upfiles) ==
    IF \A i \in 1..Len(upfiles) : ~Rejected(upfiles, i) THEN ""
    ELSE LET i == CHOOSE j \in 1..Len(upfiles) :
                      /\ Rejected(upfiles, j)
                      /\ \A h \in 1..(j - 1) : ~Rejected(upfiles, h)
         IN  IF i <= UploadMaxCount /\ upfiles[i].mimetype \notin allowedTypes
             THEN "Error" ELSE "MulterError"

\* The name the disk storage gives the i-th file of request n (random in the
\* code, so distinct from every other name).
FileName(n, i) == Str("upload-" \o ToString(n) \o "-" \o ToString(i))

\* file.filename of the stored files, in request order.
StoredNames(n, upfiles) == [i \in 1..Len(upfiles) |-> FileName(n, i)]

\* The files multer leaves in uploads/ for a request: all of them when it
\* accepts the request, none when it fails (it removes what it had stored).
multerStores(n, upfiles) ==
    IF multerError(upfiles) = "" THEN {FileName(n, i) : i \in 1..Len(upfiles)}
    ELSE {}

\* The statuses the global error handler of server/index.ts answers with.
globalErrorStatus(errName) ==
    IF errName = "MulterError" THEN {400, 500} ELSE {500}

---------------------------------------------------------------------------
(* Static template generation. *)

\* String.prototype.toLowerCase on the names that occur.
toLowerCase(s) == IF s = "Shop" THEN "shop" ELSE s

\* A template literal is modelled as its kind and the values interpolated.
Text(parts) == [t |-> "string", v |-> parts]
generateAWSTemplate(project) ==
    Text(<<"AWS CloudFormation Template", project.name.v>>)
generateGCPTemplate(project) ==
    Text(<<"Google Cloud Deployment Manager Template", project.name.v,
           toLowerCase(project.name.v)>>)
\* An Azure template that also interpolates the description.
generateAzureTemplate_Described(project) ==
    Text(<<"Azure Resource Manager Template", project.name.v,
           project.description.v>>)
generateAzureTemplate(project) ==
    Text(<<"Azure Resource Manager Template", project.name.v>>)

\* A templates object whose gcp entry was pasted from the aws one.
templates_Pasted(project) ==
    [aws |-> [name |-> "AWS CloudFormation",
              code |-> generateAWSTemplate(project),
              estimatedCost |-> 247, provider |-> "aws"],
     gcp |-> [name |-> "Google Cloud Deployment Manager",
              code |-> generateGCPTemplate(project),
              estimatedCost |-> 198, provider |-> "aws"],
     azure |-> [name |-> "Azure Resource Manager",
                code |-> generateAzureTemplate(project),
                estimatedCost |-> 289, provider |-> "azure"]]

\* The object the templates handler sends.
templates(project) ==
    [aws |-> [name |-> "AWS CloudFormation",
              code |-> generateAWSTemplate(project),
              estimatedCost |-> 247, provider |-> "aws"],
     gcp |-> [name |-> "Google Cloud Deployment Manager",
              code |-> generateGCPTemplate(project),
              estimatedCost |-> 198, provider |-> "gcp"],
     azure |-> [name |-> "Azure Resource Manager",
                code |-> generateAzureTemplate(project),
                estimatedCost |-> 289, provider |-> "azure"]]

\* An answer that draws the progress whatever the status.
deploymentStatusBody_AlwaysRandom(project, random) ==
    [status |-> project.deploymentStatus, progress |-> random]

\* The body of the deployment-status answer.
deploymentStatusBody(project, random) ==
    [status |-> project.deploymentStatus,
     progress |-> IF project.deploymentStatus = "deploying" THEN random ELSE 100]

\* The updates the deploy handler passes to updateProject.
deployUpdates(body) ==
    [selectedProvider |-> Get(body, "provider"), deploymentStatus |-> "deploying"]

\* An upload that writes back the whole project it read before the await.
uploadUpdates_WholeProject(project, filePaths) ==
    Spread(project,
        [uploadedFiles |->
            Arr((IF Falsy(project.uploadedFiles) THEN <<>>
                 ELSE project.uploadedFiles.v) \o filePaths)])

\* The updates the upload handler passes to updateProject.
uploadUpdates(project, filePaths) ==
    [uploadedFiles |->
        Arr((IF Falsy(project.uploadedFiles) THEN <<>>
             ELSE project.uploadedFiles.v) \o filePaths)]

\* A configuration update that also clears the provider.
configurationUpdates_AndProvider(configuration) ==
    [configuration |-> Obj(configuration), selectedProvider |-> Null]

\* The updates the configuration handler passes to updateProject.
configurationUpdates(configuration) == [configuration |-> Obj(configuration)]

ErrorBody(message) == [error |-> message]

---------------------------------------------------------------------------
(* The AI generators (server/ai-service.ts).  A response text of the LLM   *)
(* is modelled as its sequence of lexical tokens; what is not a JSON token *)
(* (prose, a code fence) is a token of kind "text".                        *)

Tok(k) == [k |-> k, v |-> ""]
TString(s) == [k |-> "string", v |-> s]
TNumber(n) == [k |-> "number", v |-> n]
TText(s) == [k |-> "text", v |-> s]

\* The result of a parsing step: the value and the tokens left, or a failure
\* (JSON.parse throws a SyntaxError).
ParseFail == [ok |-> FALSE, value |-> Undefined, rest |-> <<>>]
ParseOk(value, rest) == [ok |-> TRUE, value |-> value, rest |-> rest]
IsTok(toks, k) == toks # <<>> /\ Head(toks).k = k

RECURSIVE ParseValue(_)
RECURSIVE ParseElements(_, _)
RECURSIVE ParseMembers(_, _)

\* value := string | number | null | true | false | array | object
ParseValue(toks) ==
    IF toks = <<>> THEN ParseFail
    ELSE LET t == Head(toks) IN
         CASE t.k = "string" -> ParseOk(Str(t.v), Tail(toks))
           [] t.k = "number" -> ParseOk(Num(t.v), Tail(toks))
           [] t.k = "null" -> ParseOk(Null, Tail(toks))
           [] t.k = "true" -> ParseOk(Bool(TRUE), Tail(toks))
           [] t.k = "false" -> ParseOk(Bool(FALSE), Tail(toks))
           [] t.k = "[" ->
                IF IsTok(Tail(toks), "]")
                THEN ParseOk(Arr(<<>>), Tail(Tail(toks)))
                ELSE ParseElements(Tail(toks), <<>>)
           [] t.k = "{" ->
                IF IsTok(Tail(toks), "}")
                THEN ParseOk(Obj([x \in {} |-> Undefined]), Tail(Tail(toks)))
                ELSE ParseMembers(Tail(toks), [x \in {} |-> Undefined])
           [] OTHER -> ParseFail

\* elements := value (',' value)* ']'
ParseElements(toks, acc) ==
    LET e == ParseValue(toks) IN
    IF ~e.ok THEN ParseFail
    ELSE IF IsTok(e.rest, ",") THEN ParseElements(Tail(e.rest), Append(acc, e.value))
    ELSE IF IsTok(e.rest, "]") THEN ParseOk(Arr(Append(acc, e.value)), Tail(e.rest))
    ELSE ParseFail

\* members := string ':' value (',' string ':' value)* '}'
ParseMembers(toks, acc) ==
    IF ~(IsTok(toks, "string") /\ IsTok(Tail(toks), ":")) THEN ParseFail
    ELSE LET key == Head(toks).v
             e == ParseValue(Tail(Tail(toks)))
             obj == [x \in DOMAIN acc \cup {key} |->
                        IF x = key THEN e.value ELSE acc[x]]
         IN  IF ~e.ok THEN ParseFail
             ELSE IF IsTok(e.rest, ",") THEN ParseMembers(Tail(e.rest), obj)
             ELSE IF IsTok(e.rest, "}") THEN ParseOk(Obj(obj), Tail(e.rest))
             ELSE ParseFail

\* JSON.parse(text): one value and nothing after it.
JSONParse(text) ==
    LET r == ParseValue(text) IN
    IF r.ok /\ r.rest = <<>> THEN r ELSE ParseFail

\* parsed.key: undefined on a primitive or an array, the member of an object;
\* on null the access throws a TypeError.
Throws(parsed) == parsed.t = "null"
Member(parsed, key) ==
    IF parsed.t = "object" THEN Get(parsed.v, key) ELSE Undefined

\* x || d
OrElse(x, d) == IF Falsy(x) THEN d ELSE x

\* What the try block of a template generator returns.
ParsedTemplate(provider, parsed) ==
    [provider |-> provider,
     templateCode |-> Member(parsed, "templateCode"),
     estimatedCost |-> Member(parsed, "estimatedCost"),
     reasoning |-> Member(parsed, "reasoning"),
     optimizations |-> OrElse(Member(parsed, "optimizations"), Arr(<<>>)),
     securityConsiderations |->
         OrElse(Member(parsed, "securityConsiderations"), Arr(<<>>)),
     scalabilityFeatures |->
         OrElse(Member(parsed, "scalabilityFeatures"), Arr(<<>>))]

\* The try/catch of a generator: the catch block's value when JSON.parse or
\* a member access throws.
TryParsed(response, fromParsed(_), fallback) ==
    LET r == JSONParse(response) IN
    IF ~r.ok \/ Throws(r.value) THEN fallback ELSE fromParsed(r.value)

StringList(s) == Arr([i \in 1..Len(s) |-> Str(s[i])])

AWSFallback(response) ==
    [provider |-> "aws",
     templateCode |-> Text(response),
     estimatedCost |-> Num(250),
     reasoning |-> Str("AI-generated template with optimized resource allocation"),
     optimizations |->
         StringList(<<"Auto-scaling configuration", "Multi-AZ deployment">>),
     securityConsiderations |-> StringList(<<"VPC isolation", "Security groups">>),
     scalabilityFeatures |-> StringList(<<"Load balancer", "Auto-scaling group">>)]

GCPFallback(response) ==
    [provider |-> "gcp",
     templateCode |-> Text(response),
     estimatedCost |-> Num(200),
     reasoning |-> Str("AI-generated template with GCP-specific optimizations"),
     optimizations |->
         StringList(<<"Managed instance groups", "Cloud SQL High Availability">>),
     securityConsiderations |-> StringList(<<"VPC firewall rules", "IAM policies">>),
     scalabilityFeatures |-> StringList(<<"Load balancing", "Auto-scaling">>)]

AzureFallback(response) ==
    [provider |-> "azure",
     templateCode |-> Text(response),
     estimatedCost |-> Num(290),
     reasoning |-> Str("AI-generated template with Azure-specific optimizations"),
     optimizations |->
         StringList(<<"VM Scale Sets", "Azure Database High Availability">>),
     securityConsiderations |->
         StringList(<<"Network Security Groups", "Azure AD integration">>),
     scalabilityFeatures |-> StringList(<<"Application Gateway", "Scale Sets">>)]

ArchitectureFallback ==
    [components |-> Arr(<<Obj(
         [name |-> Str("Load Balancer"), type |-> Str("Network"),
          purpose |-> Str("Distribute incoming traffic"),
          connections |-> Arr(<<Obj(
              [target |-> Str("Application Servers"),
               protocol |-> Str("HTTP/HTTPS"), port |-> Str("80/443"),
               security |-> Str("WAF")])>>),
          securityControls |-> StringList(<<"WAF", "TLS">>)])>>),
     dataFlow |-> Arr(<<Obj(
         [from |-> Str("Load Balancer"), to |-> Str("Application Servers"),
          type |-> Str("HTTP/HTTPS"), protocol |-> Str("HTTP/HTTPS"),
          port |-> Str("80/443"),
          description |-> Str("Routes user requests to healthy instances"),
          security |-> Str("WAF, TLS")])>>),
     scalingStrategy |->
         Str("AI-analyzed horizontal scaling approach with auto-scaling triggers and fallback"),
     bottlenecks |-> Arr(<<Obj(
         [name |-> Str("Database connections"),
          reason |-> Str("Limited connection pool"),
          mitigation |-> Str("Use read replicas and connection pooling")])>>),
     recommendations |-> Arr(<<Obj(
         [title |-> Str("Implement Caching"),
          rationale |-> Str("Reduce database load and improve response time"),
          implementation |-> Str("Add Redis or Memcached as a caching layer"),
          impact |-> Str("High performance improvement")])>>)]

Feature(name, what, how, why) ==
    Obj([name |-> Str(name), what |-> Str(what), how |-> Str(how),
         why |-> Str(why)])
NoFeatures ==
    Obj([securityFeatures |-> Arr(<<>>), scalabilityFeatures |-> Arr(<<>>)])

RecommendationsFallback ==
    [performance |-> Arr(<<Obj(
         [title |-> Str("Implement Caching"),
          description |-> Str("Add Redis caching layer for frequently accessed data"),
          impact |-> Str("high"), effort |-> Str("medium"),
          implementation |-> Str("Deploy Redis, update app logic to use cache")])>>),
     security |-> Arr(<<Obj(
         [title |-> Str("Enable WAF"),
          description |->
              Str("Web Application Firewall to protect against common attacks"),
          severity |-> Str("high"),
          implementation |-> Str("Configure AWS WAF rules"),
          protection |-> Str("Blocks malicious traffic before it reaches the app")])>>),
     cost |-> Arr(<<Obj(
         [title |-> Str("Reserved Instances"),
          description |-> Str("Use reserved instances for predictable workloads"),
          savings |-> Str("30-50% on compute costs"),
          tradeoffs |-> Str("Upfront commitment required"),
          breakdown |-> Str("Compute: 40%, Storage: 10%")])>>),
     cloudFeatures |-> Obj(
         [AWS |-> Obj(
              [securityFeatures |-> Arr(<<Feature("WAF",
                   "Web Application Firewall", "Filters and monitors HTTP traffic",
                   "Protects against common web exploits")>>),
               scalabilityFeatures |-> Arr(<<Feature("Auto Scaling",
                   "Automatic resource scaling",
                   "Adjusts compute resources based on load",
                   "Ensures performance under varying traffic")>>)]),
          GCP |-> NoFeatures,
          Azure |-> NoFeatures])]

ParsedAWS(parsed) == ParsedTemplate("aws", parsed)
ParsedGCP(parsed) == ParsedTemplate("gcp", parsed)
ParsedAzure(parsed) == ParsedTemplate("azure", parsed)

ParsedArchitecture(parsed) ==
    [components |-> OrElse(Member(parsed, "components"), Arr(<<>>)),
     dataFlow |-> OrElse(Member(parsed, "dataFlow"), Arr(<<>>)),
     scalingStrategy |->
         OrElse(Member(parsed, "scalingStrategy"),
                Str("Horizontal scaling with load balancing")),
     bottlenecks |-> OrElse(Member(parsed, "bottlenecks"), Arr(<<>>)),
     recommendations |-> OrElse(Member(parsed, "recommendations"), Arr(<<>>))]

ParsedRecommendations(parsed) ==
    [performance |-> OrElse(Member(parsed, "performance"), Arr(<<>>)),
     security |-> OrElse(Member(parsed, "security"), Arr(<<>>)),
     cost |-> OrElse(Member(parsed, "cost"), Arr(<<>>)),
     cloudFeatures |->
         OrElse(Member(parsed, "cloudFeatures"), Obj([x \in {} |-> Undefined]))]

\* The generators, as functions of the text callLLM returned.
generateAWSTemplateAI(response) ==
    TryParsed(response, ParsedAWS, AWSFallback(response))

\* A GCP generator whose fallback was copied from the AWS one.
generateGCPTemplateAI_Copied(response) ==
    TryParsed(response, ParsedGCP, AWSFallback(response))

generateGCPTemplateAI(response) ==
    TryParsed(response, ParsedGCP, GCPFallback(response))
generateAzureTemplateAI(response) ==
    TryParsed(response, ParsedAzure, AzureFallback(response))
generateArchitectureAnalysis(response) ==
    TryParsed(response, ParsedArchitecture, ArchitectureFallback)
generateRecommendations(response) ==
    TryParsed(response, ParsedRecommendations, RecommendationsFallback)

Generators ==
    {"generateAWSTemplateAI", "generateGCPTemplateAI", "generateAzureTemplateAI",
     "generateArchitectureAnalysis", "generateRecommendations"}

\* Texts an LLM answers with.
ProseText == <<TText("Here is your template:"), TText("Resources: ...")>>
FencedText ==
    <<TText("~~~json"), Tok("{"), TString("templateCode"), Tok(":"),
      TString("Resources: ..."), Tok("}"), TText("~~~")>>
TruncatedText ==
    <<Tok("{"), TString("templateCode"), Tok(":"), TString("Resources: ..."),
      Tok(",")>>
NullText == <<Tok("null")>>
CodeOnlyText ==
    <<Tok("{"), TString("templateCode"), Tok(":"), TString("Resources: ..."),
      Tok("}")>>
FullText ==
    <<Tok("{"), TString("templateCode"), Tok(":"), TString("Resources: ..."),
      Tok(","), TString("estimatedCost"), Tok(":"), TNumber(123),
      Tok(","), TString("reasoning"), Tok(":"), TString("three instances"),
      Tok(","), TString("optimizations"), Tok(":"),
          Tok("["), TString("spot instances"), Tok("]"),
      Tok(","), TString("securityConsiderations"), Tok(":"),
          Tok("["), TString("private subnets"), Tok(","), TString("TLS"), Tok("]"),
      Tok(","), TString("scalabilityFeatures"), Tok(":"), Tok("["), Tok("]"),
      Tok(","), TString("components"), Tok(":"),
          Tok("["), Tok("{"), TString("name"), Tok(":"), TString("API"), Tok("}"),
          Tok("]"),
      Tok(","), TString("performance"), Tok(":"), Tok("["), Tok("]"),
      Tok("}")>>
LLMTexts ==
    {ProseText, FencedText, TruncatedText, NullText, CodeOnlyText, FullText}

\* String.prototype.trim: the white space at both ends of the text goes.
Space == Tok("space")
RECURSIVE trimStart(_)
trimStart(text) ==
    IF text # <<>> /\ Head(text) = Space THEN trimStart(Tail(text)) ELSE text
RECURSIVE trimEnd(_)
trimEnd(text) ==
    IF text # <<>> /\ text[Len(text)] = Space
    THEN trimEnd(SubSeq(text, 1, Len(text) - 1))
    ELSE text
trim(text) == trimEnd(trimStart(text))

\* What fetch(LLM_ENDPOINT) settles with: a rejection, or a response with its
\* ok flag and its body as response.json() reads it (NotJson: json() throws).
NotJson == [t |-> "syntax-error"]
NetworkError == [kind |-> "rejected", ok |-> FALSE, body |-> Undefined]
HttpError == [kind |-> "response", ok |-> FALSE, body |-> NotJson]
Answer(data) == [kind |-> "response", ok |-> TRUE, body |-> data]

\* The three shapes callLLM recognises, and bodies it does not.
ChatAnswer ==
    Answer(Obj([choices |-> Arr(<<Obj([message |->
        Obj([role |-> Str("assistant"),
             content |-> Text(<<Space>> \o FullText \o <<Space>>)])])>>)]))
CompletionAnswer ==
    Answer(Obj([choices |-> Arr(<<Obj([text |-> Text(ProseText)])>>)]))
TextAnswer == Answer(Obj([text |-> Text(CodeOnlyText \o <<Space>>)]))
ErrorAnswer == Answer(Obj([error |-> Str("model overloaded")]))
NoChoiceAnswer == Answer(Obj([choices |-> Arr(<<>>)]))
NullChoiceAnswer == Answer(Obj([choices |-> Arr(<<Null>>)]))
NumberAnswer == Answer(Obj([text |-> Num(42)]))
HtmlAnswer == Answer(NotJson)

LLMOutcomes ==
    {NetworkError, HttpError, HtmlAnswer, ErrorAnswer, NoChoiceAnswer,
     NullChoiceAnswer, NumberAnswer, ChatAnswer, CompletionAnswer, TextAnswer}
NotCalled == [kind |-> "none", ok |-> FALSE, body |-> Undefined]

\* Truthiness of a value whose strings are texts.
Truthy(x) == IF x.t = "string" THEN x.v # <<>> ELSE ~Falsy(x)
\* x[i], and x.length > 0, for what may be an array.
At(x, i) == IF x.t = "array" /\ i < Len(x.v) THEN x.v[i + 1] ELSE Undefined
HasElements(x) == x.t = "array" /\ Len(x.v) > 0

\* callLLM either returns a text or throws the error its catch block builds.
Failed(message) ==
    [ok |-> FALSE, text |-> <<>>,
     error |-> "Failed to generate AI response: " \o message]
Returned(text) == [ok |-> TRUE, text |-> text, error |-> ""]
\* x.trim(): a TypeError when x is not a string.
Trimmed(x) ==
    IF x.t = "string" THEN Returned(trim(x.v))
    ELSE Failed("trim is not a function")

callLLM(fetched) ==
    IF fetched.kind = "rejected" THEN Failed("fetch failed")
    ELSE IF ~fetched.ok THEN Failed("LLM API error: 500")
    ELSE LET data == fetched.body
             choices == Member(data, "choices")
             first == At(choices, 0)
             hasFirst == Truthy(choices) /\ HasElements(choices)
             message == Member(first, "message")
         IN  IF data.t = "syntax-error" THEN Failed("Unexpected token")
             ELSE IF data.t \in {"null", "undefined"}
                  THEN Failed("Cannot read properties of null")
             ELSE IF hasFirst /\ first.t \in {"null", "undefined"}
                  THEN Failed("Cannot read properties of null")
             ELSE IF hasFirst /\ Truthy(message)
                     /\ Truthy(Member(message, "content"))
                  THEN Trimmed(Member(message, "content"))
             ELSE IF hasFirst /\ Truthy(Member(first, "text"))
                  THEN Trimmed(Member(first, "text"))
             ELSE IF Truthy(Member(data, "text"))
                  THEN Trimmed(Member(data, "text"))
             ELSE Failed("Invalid LLM response format")

\* A promise: pending, fulfilled with a value or rejected with an error.
Pending == [t |-> "pending", value |-> Undefined, error |-> ""]
Fulfilled(value) == [t |-> "fulfilled", value |-> value, error |-> ""]
RejectedWith(error) == [t |-> "rejected", value |-> Undefined, error |-> error]

\* The body of generator g after its await of callLLM.
generatorBody(g, response) ==
    CASE g = "generateAWSTemplateAI" -> generateAWSTemplateAI(response)
      [] g = "generateGCPTemplateAI" -> generateGCPTemplateAI(response)
      [] g = "generateAzureTemplateAI" -> generateAzureTemplateAI(response)
      [] g = "generateArchitectureAnalysis" ->
             generateArchitectureAnalysis(response)
      [] g = "generateRecommendations" -> generateRecommendations(response)

\* A generator that catches the failure of callLLM too.
generatorPromise_Caught(g, fetched) ==
    LET llm == callLLM(fetched) IN Fulfilled(generatorBody(g, llm.text))

\* The promise generator g returns: `await callLLM(...)` stands outside the
\* try block, so a failure of callLLM rejects it.
generatorPromise(g, fetched) ==
    LET llm == callLLM(fetched) IN
    IF llm.ok THEN Fulfilled(generatorBody(g, llm.text))
    ELSE RejectedWith(llm.error)

\* What generateAllAIAnalysis returns from the five results.
analysisResult(settled) ==
    [templates |->
         [aws |-> settled["generateAWSTemplateAI"].value,
          gcp |-> settled["generateGCPTemplateAI"].value,
          azure |-> settled["generateAzureTemplateAI"].value],
     architecture |-> settled["generateArchitectureAnalysis"].value,
     recommendations |-> settled["generateRecommendations"].value]

\* Promise.all after generator g settled: it rejects with the first
\* rejection and fulfils when the last promise has fulfilled; the catch block
\* of generateAllAIAnalysis rethrows the error.
generateAllAIAnalysis(all, settled, g) ==
    IF all.t # "pending" THEN all
    ELSE IF settled[g].t = "rejected" THEN RejectedWith(settled[g].error)
    ELSE IF \A h \in Generators : settled[h].t = "fulfilled"
         THEN Fulfilled(analysisResult(settled))
    ELSE all

NoAnalysis ==
    [all |-> [t |-> "none", value |-> Undefined, error |-> ""],
     fetched |-> [g \in Generators |-> NotCalled],
     settled |-> [g \in Generators |-> Pending]]

---------------------------------------------------------------------------
(* Handler frames and the steps of the event loop. *)

\* The frame of request n: what it was sent with, where its handler stands
\* (pc), the project its getProject call returned, the value its
\* updateProject or createProject call returned, and the stored file names.
Frame(n, kind, origin, idParam, body, upfiles) ==
    [n |-> n, kind |-> kind, origin |-> origin, idParam |-> idParam,
     body |-> body, files |-> upfiles, pc |-> "start",
     project |-> Undefined, result |-> Undefined, filePaths |-> <<>>]

\* Who sent a request: the mutation of the wizard, the component instance
\* that owns it, and the step and the files its callbacks close over.
\* NoOrigin is a client other than the wizard.
NoOrigin == [mutation |-> "none", instance |-> 0, step |-> 0, files |-> <<>>]

NoFrame == Frame(0, "none", NoOrigin, <<>>, EmptyObject, <<>>)

Step(fr, status, payload) == [req |-> fr, status |-> status, payload |-> payload]

WithFrame(fr) ==
    [k \in DOMAIN reqs \cup {fr.n} |-> IF k = fr.n THEN fr ELSE reqs[k]]
WithoutFrame(n) == [k \in DOMAIN reqs \ {n} |-> reqs[k]]

\* res.status(status).json(payload): the response leaves, and is delivered
\* to the wizard when one of its mutations or queries sent the request.
Respond(fr, status, payload) ==
    /\ last' = Step(fr, status, payload)
    /\ returnedIds' =
          IF fr.kind = "create" /\ status = 200
          THEN Append(returnedIds, payload.id) ELSE returnedIds
    /\ inbox' =
          IF fr.origin.mutation = "none" THEN inbox
          ELSE Append(inbox, [origin |-> fr.origin, status |-> status,
                              payload |-> payload])

\* A macrotask starts the handler of a new request: only between drains.
CanStart == ~draining
NewRequest == clock + 1

\* The handler answered before reaching an await.
StartRespond(fr, status, payload) ==
    /\ clock' = fr.n
    /\ Respond(fr, status, payload)
    /\ UNCHANGED <<reqs, microtasks, draining, ai, analysis, requestLimit>>

\* The handler reached an await: the rest of it is queued.
StartAwait(fr) ==
    /\ clock' = fr.n
    /\ reqs' = WithFrame(fr)
    /\ microtasks' = Append(microtasks, fr.n)
    /\ last' = Step(fr, 0, Undefined)
    /\ UNCHANGED <<draining, returnedIds, inbox, ai, analysis, requestLimit>>

\* The frame whose continuation runs next.
Ready(kind, pc) ==
    /\ microtasks # <<>>
    /\ reqs[Head(microtasks)].kind = kind
    /\ reqs[Head(microtasks)].pc = pc
Running == reqs[Head(microtasks)]

\* The continuation answered: the handler is over.
ContRespond(fr, status, payload) ==
    /\ reqs' = WithoutFrame(fr.n)
    /\ microtasks' = Tail(microtasks)
    /\ draining' = (Tail(microtasks) # <<>>)
    /\ Respond(fr, status, payload)
    /\ UNCHANGED <<clock, ai, analysis, requestLimit>>

\* The continuation reached the next await of a storage call.
ContAwait(fr) ==
    /\ reqs' = WithFrame(fr)
    /\ microtasks' = Append(Tail(microtasks), fr.n)
    /\ draining' = TRUE
    /\ last' = Step(fr, 0, Undefined)
    /\ UNCHANGED <<clock, returnedIds, inbox, ai, analysis, requestLimit>>

\* The continuation awaits a timer: nothing is queued until it fires.
ContSleep(fr) ==
    /\ reqs' = WithFrame(fr)
    /\ microtasks' = Tail(microtasks)
    /\ draining' = (Tail(microtasks) # <<>>)
    /\ last' = Step(fr, 0, Undefined)
    /\ UNCHANGED <<clock, returnedIds, inbox, ai, analysis, requestLimit>>

---------------------------------------------------------------------------
(* POST /api/projects *)

\* A createProject that starts a new map for the project.
createProjectStore_Replace(p) == [k \in {p.id} |-> p]

\* The map after createProject has stored project p under its id.
createProjectStore(p) ==
    [k \in DOMAIN projects \cup {p.id} |-> IF k = p.id THEN p ELSE projects[k]]

PostProject(origin, body) ==
    LET fr == Frame(NewRequest, "create", origin, <<>>, body, <<>>)
        p == NewProject(insertProjectSchemaParse(body), currentId, NewRequest)
    IN  /\ CanStart
        /\ IF insertProjectSchemaAccepts(body)
           THEN /\ projects' = createProjectStore(p)
                /\ currentId' = NextId(currentId)
                /\ StartAwait([fr EXCEPT !.pc = "respond", !.result = p])
           ELSE /\ StartRespond(fr, 400, ErrorBody("Invalid project data"))
                /\ UNCHANGED <<projects, currentId>>
        /\ UNCHANGED uploadsDir

PostProjectRespond ==
    /\ Ready("create", "respond")
    /\ ContRespond(Running, 200, Running.result)
    /\ UNCHANGED <<projects, currentId, uploadsDir, wizardVars>>

---------------------------------------------------------------------------
(* POST /api/projects/:id/upload *)

PostUpload(origin, idParam, upfiles) ==
    LET fr == Frame(NewRequest, "upload", origin, idParam, EmptyObject, upfiles)
    IN  /\ CanStart
        /\ uploadsDir' = uploadsDir \cup multerStores(NewRequest, upfiles)
        /\ IF multerError(upfiles) = ""
           THEN StartAwait([fr EXCEPT
                    !.pc = "afterGet",
                    !.project = getProject(parseInt(idParam)),
                    !.filePaths = StoredNames(NewRequest, upfiles)])
           ELSE \E status \in globalErrorStatus(multerError(upfiles)) :
                    StartRespond(fr, status, ErrorBody(multerError(upfiles)))
        /\ UNCHANGED <<projects, currentId>>

PostUploadAfterGet ==
    /\ Ready("upload", "afterGet")
    /\ LET fr == Running
           id == parseInt(fr.idParam)
           updates == uploadUpdates(fr.project, fr.filePaths)
       IN  IF fr.project = Undefined
           THEN /\ ContRespond(fr, 404, ErrorBody("Project not found"))
                /\ UNCHANGED projects
           ELSE /\ projects' = updateProjectStore(id, updates)
                /\ ContAwait([fr EXCEPT
                       !.pc = "respond",
                       !.result = updateProjectResult(id, updates)])
    /\ UNCHANGED <<currentId, uploadsDir, wizardVars>>

PostUploadRespond ==
    /\ Ready("upload", "respond")
    /\ ContRespond(Running, 200, Running.result)
    /\ UNCHANGED <<projects, currentId, uploadsDir, wizardVars>>

---------------------------------------------------------------------------
(* PUT /api/projects/:id/configuration *)

PutConfiguration(origin, idParam, body) ==
    LET fr == Frame(NewRequest, "configuration", origin, idParam, body, <<>>)
        id == parseInt(idParam)
        updates == configurationUpdates(configurationSchemaParse(body))
    IN  /\ CanStart
        /\ IF configurationSchemaAccepts(body)
           THEN /\ projects' = updateProjectStore(id, updates)
                /\ StartAwait([fr EXCEPT
                       !.pc = "respond",
                       !.result = updateProjectResult(id, updates)])
           ELSE /\ StartRespond(fr, 400, ErrorBody("Invalid configuration data"))
                /\ UNCHANGED projects
        /\ UNCHANGED <<currentId, uploadsDir>>

\* A handler that answers without looking at what updateProject returned.
PutConfigurationRespond_Unchecked ==
    /\ Ready("configuration", "respond")
    /\ ContRespond(Running, 200, Running.result)
    /\ UNCHANGED <<projects, currentId, uploadsDir, wizardVars>>

PutConfigurationRespond ==
    /\ Ready("configuration", "respond")
    /\ IF Running.result = Undefined
       THEN ContRespond(Running, 404, ErrorBody("Project not found"))
       ELSE ContRespond(Running, 200, Running.result)
    /\ UNCHANGED <<projects, currentId, uploadsDir, wizardVars>>

---------------------------------------------------------------------------
(* POST /api/projects/:id/templates *)

PostTemplates(origin, idParam) ==
    LET fr == Frame(NewRequest, "templates", origin, idParam, EmptyObject, <<>>)
    IN  /\ CanStart
        /\ StartAwait([fr EXCEPT !.pc = "afterGet",
                                 !.project = getProject(parseInt(idParam))])
        /\ UNCHANGED <<projects, currentId, uploadsDir>>

PostTemplatesAfterGet ==
    /\ Ready("templates", "afterGet")
    /\ IF Running.project = Undefined
       THEN ContRespond(Running, 404, ErrorBody("Project not found"))
       ELSE ContSleep([Running EXCEPT !.pc = "timer"])
    /\ UNCHANGED <<projects, currentId, uploadsDir, wizardVars>>

\* The 2000 ms timer fires (a macrotask) and resolves the awaited promise.
PostTemplatesTimer ==
    /\ CanStart
    /\ \E n \in DOMAIN reqs :
          /\ reqs[n].kind = "templates" /\ reqs[n].pc = "timer"
          /\ reqs' = [reqs EXCEPT ![n].pc = "respond"]
          /\ microtasks' = Append(microtasks, n)
          /\ last' = Step(reqs'[n], 0, Undefined)
    /\ UNCHANGED <<projects, currentId, uploadsDir, draining, clock,
                   returnedIds, inbox, ai, analysis, requestLimit, wizardVars>>

PostTemplatesRespond ==
    /\ Ready("templates", "respond")
    /\ ContRespond(Running, 200, templates(Running.project))
    /\ UNCHANGED <<projects, currentId, uploadsDir, wizardVars>>

---------------------------------------------------------------------------
(* POST /api/projects/:id/deploy *)

PostDeploy(origin, idParam, body) ==
    LET fr == Frame(NewRequest, "deploy", origin, idParam, body, <<>>)
        id == parseInt(idParam)
    IN  /\ CanStart
        /\ projects' = updateProjectStore(id, deployUpdates(body))
        /\ StartAwait([fr EXCEPT
               !.pc = "respond",
               !.result = updateProjectResult(id, deployUpdates(body))])
        /\ UNCHANGED <<currentId, uploadsDir>>

PostDeployRespond ==
    /\ Ready("deploy", "respond")
    /\ IF Running.result = Undefined
       THEN ContRespond(Running, 404, ErrorBody("Project not found"))
       ELSE ContRespond(Running, 200,
                [message |-> "Deployment started", project |-> Running.result])
    /\ UNCHANGED <<projects, currentId, uploadsDir, wizardVars>>

---------------------------------------------------------------------------
(* GET /api/projects/:id/deployment-status *)

GetDeploymentStatus(origin, idParam) ==
    LET fr == Frame(NewRequest, "status", origin, idParam, EmptyObject, <<>>)
    IN  /\ CanStart
        /\ StartAwait([fr EXCEPT !.pc = "respond",
                                 !.project = getProject(parseInt(idParam))])
        /\ UNCHANGED <<projects, currentId, uploadsDir>>

GetDeploymentStatusRespond ==
    /\ Ready("status", "respond")
    /\ IF Running.project = Undefined
       THEN ContRespond(Running, 404, ErrorBody("Project not found"))
       ELSE \E random \in RandomProgress :
                ContRespond(Running, 200,
                            deploymentStatusBody(Running.project, random))
    /\ UNCHANGED <<projects, currentId, uploadsDir, wizardVars>>

---------------------------------------------------------------------------
(* The state the step components are mounted with. *)

\* Templates: loading, templates, selectedTemplate, progress, and whether
\* the progress interval is set.
TemplatesInitial ==
    [loading |-> TRUE, templates |-> EmptyObject, selectedTemplate |-> Null,
     progress |-> 0, progressInterval |-> TRUE]

\* The names of deploymentSteps, in order.
deploymentSteps ==
    <<"Validating Configuration", "Provisioning Resources",
      "Setting up Database", "Launching Compute Instances",
      "Deploying Application", "Final Configuration">>

\* Deployment: its state, whether its interval is set, the number of times
\* the interval's callback has run, and the data of its status query.
DeploymentInitial ==
    [deploymentStarted |-> FALSE, deploymentComplete |-> FALSE,
     currentStepIndex |-> 0, progress |-> 0,
     logs |-> <<"Starting CloudFormation deployment...",
                "Template validation successful">>,
     steps |-> <<"completed", "in-progress", "pending", "pending", "pending",
                 "pending">>,
     interval |-> FALSE, ticks |-> 0,
     deploymentStatus |-> Undefined]

\* No run of a generator yet.
NotRun == [response |-> <<>>, result |-> Undefined]

---------------------------------------------------------------------------
(* The server under arbitrary requests. *)

\* The state after the server has started and the page was loaded.
Constructed ==
    /\ projects = [k \in {} |-> Undefined]
    /\ currentId = 1
    /\ uploadsDir = {}
    /\ reqs = [k \in {} |-> NoFrame]
    /\ microtasks = <<>>
    /\ draining = FALSE
    /\ clock = 0
    /\ last = Step(NoFrame, 0, Undefined)
    /\ returnedIds = <<>>
    /\ inbox = <<>>
    /\ handled = {}
    /\ mounts = 1
    /\ currentStep = 1
    /\ projectId = Null
    /\ files = <<>>
    /\ sessionProjects = {}
    /\ templatesStep = TemplatesInitial
    /\ deploymentStep = DeploymentInitial
    /\ timers = {}
    /\ chosenProvider = "none"
    /\ ai = [g \in Generators |-> NotRun]
    /\ analysis = NoAnalysis

Init == Constructed /\ requestLimit = MaxWizardRequests

AnyPostProject ==
    /\ clock < MaxRequests
    /\ \E body \in CreateBodies : PostProject(NoOrigin, body)
    /\ UNCHANGED wizardVars

AnyPostUpload ==
    /\ clock < MaxRequests
    /\ \E idParam \in IdParams, upfiles \in UploadBatches :
           PostUpload(NoOrigin, idParam, upfiles)
    /\ UNCHANGED wizardVars

AnyPutConfiguration ==
    /\ clock < MaxRequests
    /\ \E idParam \in IdParams, body \in ConfigBodies :
           PutConfiguration(NoOrigin, idParam, body)
    /\ UNCHANGED wizardVars

AnyPostTemplates ==
    /\ clock < MaxRequests
    /\ \E idParam \in IdParams : PostTemplates(NoOrigin, idParam)
    /\ UNCHANGED wizardVars

AnyPostDeploy ==
    /\ clock < MaxRequests
    /\ \E idParam \in IdParams, body \in DeployBodies :
           PostDeploy(NoOrigin, idParam, body)
    /\ UNCHANGED wizardVars

AnyGetDeploymentStatus ==
    /\ clock < MaxRequests
    /\ \E idParam \in IdParams : GetDeploymentStatus(NoOrigin, idParam)
    /\ UNCHANGED wizardVars

Next ==
    \/ AnyPostProject
    \/ AnyPostUpload
    \/ AnyPutConfiguration
    \/ AnyPostTemplates
    \/ AnyPostDeploy
    \/ AnyGetDeploymentStatus
    \/ PostProjectRespond
    \/ PostUploadAfterGet
    \/ PostUploadRespond
    \/ PutConfigurationRespond
    \/ PostTemplatesAfterGet
    \/ PostTemplatesTimer
    \/ PostTemplatesRespond
    \/ PostDeployRespond
    \/ GetDeploymentStatusRespond

Spec == Init /\ [][Next]_vars

---------------------------------------------------------------------------
(* The wizard: Home, ProjectInput and Configuration.                       *)
(*                                                                         *)
(* A mutation's onSuccess and onError run when its response arrives, also  *)
(* after the component that owns it was unmounted; they close over the     *)
(* step and the files of that component.  Sending a request starts its     *)
(* handler on the server.                                                  *)

\* What the user types into the project form.
ShopForm ==
    [name |-> Str("Shop"), description |-> Str("an online shop"),
     techStack |-> Str(""), expectedUsers |-> Str("1k-10k")]
\* A description under ten characters.
ShortForm == [ShopForm EXCEPT !.description = Str("a shop")]
ProjectForms == {ShopForm, ShortForm}

\* projectSchema of ProjectInput (the form's resolver).
projectSchemaAccepts(data) ==
    /\ Len(data.name.v) >= 1
    /\ Len(data.description.v) >= 10
    /\ Len(data.expectedUsers.v) >= 1

\* The files the user picks or drops: accepted ones, or one of a type the
\* server refuses (the drop zone takes any file).
FileSelections == {<<Png>>, <<Png, Gif>>}

\* What the user enters in the configuration form.
ConfigurationForms == {ConfigA}

\* Home.nextStep and Home.prevStep, as closed over by a component rendered
\* at the given step.
nextStep(step) == IF step < 4 THEN step + 1 ELSE step
prevStep(step) == IF step > 1 THEN step - 1 ELSE step

\* The origin of a request sent by a mutation of the mounted component.
Origin(mutation) ==
    [mutation |-> mutation, instance |-> mounts, step |-> currentStep,
     files |-> files]

\* mutation.isPending for a mutation of the mounted component.
isPending(mutation) ==
    \/ \E n \in DOMAIN reqs :
           reqs[n].origin.mutation = mutation /\ reqs[n].origin.instance = mounts
    \/ \E i \in (1..Len(inbox)) \ handled :
           inbox[i].origin.mutation = mutation /\ inbox[i].origin.instance = mounts

\* The responses whose callback has not run yet.
Arrived == (1..Len(inbox)) \ handled

\* setCurrentStep(step): the step's component is mounted afresh when the
\* step changes, and the component that was shown is unmounted.
SetCurrentStep(step) ==
    /\ currentStep' = step
    /\ mounts' = IF step = currentStep THEN mounts ELSE mounts + 1
    /\ files' = IF step = currentStep THEN files ELSE <<>>
    /\ templatesStep' =
          IF step = currentStep THEN templatesStep ELSE TemplatesInitial
    /\ deploymentStep' =
          IF step = currentStep THEN deploymentStep ELSE DeploymentInitial
    /\ timers' =
          IF step # currentStep /\ step = 3
          THEN timers \cup {[instance |-> mounts + 1, projectId |-> projectId]}
          ELSE timers

ServerIdle ==
    UNCHANGED <<projects, currentId, uploadsDir, reqs, microtasks, draining,
                clock, last, returnedIds, inbox, ai, analysis, requestLimit>>

\* handleFileChange / handleDrop
SelectFiles ==
    /\ currentStep = 1
    /\ ~isPending("createProjectMutation") /\ ~isPending("uploadFilesMutation")
    /\ \E selection \in FileSelections :
           /\ selection # files
           /\ files' = selection
    /\ UNCHANGED <<handled, mounts, currentStep, projectId, sessionProjects,
                   templatesStep, deploymentStep, timers, chosenProvider>>
    /\ ServerIdle

\* ProjectInput.handleSubmit: the submit button of step 1.
SubmitProject ==
    /\ currentStep = 1
    /\ ~isPending("createProjectMutation") /\ ~isPending("uploadFilesMutation")
    /\ clock < requestLimit
    /\ \E data \in ProjectForms :
           /\ projectSchemaAccepts(data)
           /\ PostProject(Origin("createProjectMutation"), data)
    /\ sessionProjects' = sessionProjects \cup {currentId}
    /\ UNCHANGED <<handled, mounts, currentStep, projectId, files,
                   templatesStep, deploymentStep, timers, chosenProvider>>

\* A handleProjectSubmit that forgets the id.
handleProjectSubmit_NoId(step, id) ==
    /\ projectId' = projectId
    /\ SetCurrentStep(nextStep(step))

\* Home.handleProjectSubmit(data, id), as closed over at the given step.
handleProjectSubmit(step, id) ==
    /\ projectId' = Num(id)
    /\ SetCurrentStep(nextStep(step))

\* createProjectMutation.onSuccess with files selected: uploadFiles(id).
CreateSucceededUpload ==
    /\ clock < requestLimit
    /\ \E i \in Arrived :
          /\ inbox[i].origin.mutation = "createProjectMutation"
          /\ inbox[i].status = 200
          /\ Len(inbox[i].origin.files) > 0
          /\ handled' = handled \cup {i}
          /\ PostUpload([inbox[i].origin EXCEPT !.mutation = "uploadFilesMutation"],
                        numberToString(inbox[i].payload.id), inbox[i].origin.files)
    /\ UNCHANGED <<mounts, currentStep, projectId, files, sessionProjects,
                   templatesStep, deploymentStep, timers, chosenProvider>>

\* createProjectMutation.onSuccess without files, and
\* uploadFilesMutation.onSuccess: onSubmit(values, project.id).
ProjectSubmitted ==
    /\ \E i \in Arrived :
          /\ \/ /\ inbox[i].origin.mutation = "createProjectMutation"
                /\ Len(inbox[i].origin.files) = 0
             \/ inbox[i].origin.mutation = "uploadFilesMutation"
          /\ inbox[i].status = 200
          /\ handled' = handled \cup {i}
          /\ handleProjectSubmit(inbox[i].origin.step, inbox[i].payload.id)
    /\ UNCHANGED <<sessionProjects, chosenProvider>>
    /\ ServerIdle

\* Configuration.handleSubmit: the submit button of step 2.
SubmitConfiguration ==
    /\ currentStep = 2
    /\ ~isPending("updateConfigMutation")
    /\ clock < requestLimit
    /\ \E data \in ConfigurationForms :
           /\ configurationSchemaAccepts(data)
           /\ PutConfiguration(Origin("updateConfigMutation"),
                               numberToString(projectId.v), data)
    /\ UNCHANGED wizardVars

\* updateConfigMutation.onSuccess: Home.handleConfigSubmit(values).
ConfigurationSubmitted ==
    /\ \E i \in Arrived :
          /\ inbox[i].origin.mutation = "updateConfigMutation"
          /\ inbox[i].status = 200
          /\ handled' = handled \cup {i}
          /\ SetCurrentStep(nextStep(inbox[i].origin.step))
    /\ UNCHANGED <<projectId, sessionProjects, chosenProvider>>
    /\ ServerIdle

\* onError of a mutation of ProjectInput, Configuration or Deployment: a
\* toast, and nothing else.
MutationFailed ==
    /\ \E i \in Arrived :
          /\ inbox[i].status >= 400
          /\ inbox[i].origin.mutation # "generateTemplatesMutation"
          /\ handled' = handled \cup {i}
    /\ UNCHANGED <<mounts, currentStep, projectId, files, sessionProjects,
                   templatesStep, deploymentStep, timers, chosenProvider>>
    /\ ServerIdle

\* The Back button of Configuration and of Templates: Home.prevStep.
Back ==
    /\ currentStep \in {2, 3}
    /\ SetCurrentStep(prevStep(currentStep))
    /\ UNCHANGED <<handled, projectId, sessionProjects, chosenProvider>>
    /\ ServerIdle

\* The setTimeout callback of a Templates instance (1000 ms after it was
\* mounted, whether or not it still is): generateTemplatesMutation.mutate().
TemplatesTimer ==
    /\ clock < requestLimit
    /\ \E t \in timers :
          /\ timers' = timers \ {t}
          /\ PostTemplates([mutation |-> "generateTemplatesMutation",
                            instance |-> t.instance, step |-> 3, files |-> <<>>],
                           numberToString(t.projectId.v))
    /\ UNCHANGED <<handled, mounts, currentStep, projectId, files,
                   sessionProjects, templatesStep, deploymentStep,
                   chosenProvider>>

\* The setTimeout callback of a Templates instance fires and the fetch of
\* its request is rejected (the server is not reached): the mutation fails
\* without a response; the request counts among those the wizard has sent.
\* The wizard's project always exists, so this is the way the templates
\* request of the wizard fails.
TemplatesTimerOffline ==
    /\ clock < requestLimit
    /\ clock' = clock + 1
    /\ \E t \in timers :
          /\ timers' = timers \ {t}
          /\ inbox' = Append(inbox,
                 [origin |-> [mutation |-> "generateTemplatesMutation",
                              instance |-> t.instance, step |-> 3,
                              files |-> <<>>],
                  status |-> 0, payload |-> ErrorBody("Failed to fetch")])
    /\ UNCHANGED <<handled, mounts, currentStep, projectId, files,
                   sessionProjects, templatesStep, deploymentStep,
                   chosenProvider>>
    /\ UNCHANGED <<projects, currentId, uploadsDir, reqs, microtasks, draining,
                   last, returnedIds, ai, analysis, requestLimit>>

\* generateTemplatesMutation.onSuccess and onError: the state of the instance
\* is set when it is still mounted.
GenerateTemplatesSettled ==
    /\ \E i \in Arrived :
          /\ inbox[i].origin.mutation = "generateTemplatesMutation"
          /\ handled' = handled \cup {i}
          /\ templatesStep' =
                IF inbox[i].origin.instance # mounts THEN templatesStep
                ELSE IF inbox[i].status = 200
                THEN [templatesStep EXCEPT !.templates = inbox[i].payload,
                                           !.loading = FALSE]
                ELSE [templatesStep EXCEPT !.loading = FALSE]
    /\ UNCHANGED <<mounts, currentStep, projectId, files, sessionProjects,
                   deploymentStep, timers, chosenProvider>>
    /\ ServerIdle

\* selectTemplate(templates.aws | templates.gcp | templates.azure)
selectTemplate ==
    /\ currentStep = 3
    /\ ~templatesStep.loading
    /\ \E k \in DOMAIN templatesStep.templates :
          /\ templatesStep.selectedTemplate # templatesStep.templates[k]
          /\ templatesStep' =
                [templatesStep EXCEPT
                    !.selectedTemplate = templatesStep.templates[k]]
    /\ UNCHANGED <<handled, mounts, currentStep, projectId, files,
                   sessionProjects, deploymentStep, timers, chosenProvider>>
    /\ ServerIdle

closeTemplateDetails ==
    /\ currentStep = 3
    /\ ~templatesStep.loading
    /\ templatesStep.selectedTemplate # Null
    /\ templatesStep' = [templatesStep EXCEPT !.selectedTemplate = Null]
    /\ UNCHANGED <<handled, mounts, currentStep, projectId, files,
                   sessionProjects, deploymentStep, timers, chosenProvider>>
    /\ ServerIdle

\* A Deploy Now button that is always shown.
DeployNow_Always ==
    /\ currentStep = 3
    /\ chosenProvider' =
          IF templatesStep.selectedTemplate = Null THEN "none"
          ELSE templatesStep.selectedTemplate.provider
    /\ SetCurrentStep(nextStep(currentStep))
    /\ UNCHANGED <<handled, projectId, sessionProjects>>
    /\ ServerIdle

\* The Deploy Now button of Templates: onNext.
DeployNow ==
    /\ currentStep = 3
    /\ ~templatesStep.loading
    /\ templatesStep.selectedTemplate # Null
    /\ chosenProvider' = templatesStep.selectedTemplate.provider
    /\ SetCurrentStep(nextStep(currentStep))
    /\ UNCHANGED <<handled, projectId, sessionProjects>>
    /\ ServerIdle

\* startDeployment: the Deploy Infrastructure button of Deployment.
startDeployment ==
    /\ currentStep = 4
    /\ ~deploymentStep.deploymentStarted
    /\ ~isPending("startDeploymentMutation")
    /\ clock < requestLimit
    /\ PostDeploy(Origin("startDeploymentMutation"),
                  numberToString(projectId.v), [provider |-> Str("aws")])
    /\ UNCHANGED wizardVars

\* startDeploymentMutation.onSuccess: setDeploymentStarted(true), and the
\* effect that follows sets the interval; nothing when the instance is gone.
StartDeploymentSucceeded ==
    /\ \E i \in Arrived :
          /\ inbox[i].origin.mutation = "startDeploymentMutation"
          /\ inbox[i].status = 200
          /\ handled' = handled \cup {i}
          /\ deploymentStep' =
                IF inbox[i].origin.instance # mounts THEN deploymentStep
                ELSE [deploymentStep EXCEPT !.deploymentStarted = TRUE,
                                            !.interval = TRUE]
    /\ UNCHANGED <<mounts, currentStep, projectId, files, sessionProjects,
                   templatesStep, timers, chosenProvider>>
    /\ ServerIdle

\* Math.round(num / den) for num, den > 0
MathRound(num, den) == (2 * num + den) \div (2 * den)

\* An interval callback that stops the timer without marking completion.
DeploymentTickState_NeverComplete(d) ==
    LET prev == d.currentStepIndex IN
    IF prev >= Len(d.steps) - 1
    THEN [d EXCEPT !.interval = FALSE, !.ticks = @ + 1]
    ELSE [d EXCEPT
            !.steps = [@ EXCEPT ![prev + 1] = "completed",
                                ![prev + 2] = "in-progress"],
            !.logs = Append(@, deploymentSteps[prev + 1]
                                \o " completed successfully"),
            !.progress = MathRound((prev + 2) * 100, Len(d.steps)),
            !.currentStepIndex = prev + 1,
            !.ticks = @ + 1]

\* An interval callback that advances only when the polled status says the
\* server is done.
DeploymentTickState_AwaitsServer(d) ==
    IF d.deploymentStatus = Undefined
       \/ d.deploymentStatus.status = "deploying"
    THEN d
    ELSE [d EXCEPT !.deploymentComplete = TRUE, !.interval = FALSE,
                   !.ticks = @ + 1]

\* The state the interval callback leaves (steps[k] of the code is
\* steps[k + 1] here).
DeploymentTickState(d) ==
    LET prev == d.currentStepIndex IN
    IF prev >= Len(d.steps) - 1
    THEN [d EXCEPT !.deploymentComplete = TRUE, !.interval = FALSE,
                   !.ticks = @ + 1]
    ELSE [d EXCEPT
            !.steps = [@ EXCEPT ![prev + 1] = "completed",
                                ![prev + 2] = "in-progress"],
            !.logs = Append(@, deploymentSteps[prev + 1]
                                \o " completed successfully"),
            !.progress = MathRound((prev + 2) * 100, Len(d.steps)),
            !.currentStepIndex = prev + 1,
            !.ticks = @ + 1]

\* The 3000 ms interval of Deployment fires.
DeploymentTick ==
    /\ deploymentStep.interval
    /\ deploymentStep' = DeploymentTickState(deploymentStep)
    /\ UNCHANGED <<handled, mounts, currentStep, projectId, files,
                   sessionProjects, templatesStep, timers, chosenProvider>>
    /\ ServerIdle

\* The deployment-status query of Deployment, enabled while
\* deploymentStarted && !deploymentComplete: it fetches when it becomes
\* enabled and every 2000 ms after that, one fetch at a time.
PollDeploymentStatus ==
    /\ currentStep = 4
    /\ deploymentStep.deploymentStarted
    /\ ~deploymentStep.deploymentComplete
    /\ ~isPending("deploymentStatusQuery")
    /\ clock < requestLimit
    /\ GetDeploymentStatus(Origin("deploymentStatusQuery"),
                           numberToString(projectId.v))
    /\ UNCHANGED wizardVars

\* The answer to a status fetch becomes the data of the query of the
\* component that is mounted; nothing reads it.
DeploymentStatusFetched ==
    /\ \E i \in Arrived :
          /\ inbox[i].origin.mutation = "deploymentStatusQuery"
          /\ handled' = handled \cup {i}
          /\ deploymentStep' =
                IF inbox[i].origin.instance = mounts /\ inbox[i].status = 200
                THEN [deploymentStep EXCEPT
                         !.deploymentStatus = inbox[i].payload]
                ELSE deploymentStep
    /\ UNCHANGED <<mounts, currentStep, projectId, files, sessionProjects,
                   templatesStep, timers, chosenProvider>>
    /\ ServerIdle

\* The Back button of Deployment: disabled once the deployment has started.
DeploymentBack ==
    /\ currentStep = 4
    /\ ~deploymentStep.deploymentComplete
    /\ ~deploymentStep.deploymentStarted
    /\ SetCurrentStep(prevStep(currentStep))
    /\ UNCHANGED <<handled, projectId, sessionProjects, chosenProvider>>
    /\ ServerIdle

\* The page is loaded again: the wizard starts over and the callbacks of the
\* page that was shown never run; the server goes on with its requests.
Reload ==
    /\ \/ currentStep # 1 \/ projectId # Null \/ files # <<>>
       \/ sessionProjects # {} \/ inbox # <<>>
       \/ timers # {} \/ chosenProvider # "none"
       \/ \E n \in DOMAIN reqs : reqs[n].origin # NoOrigin
    /\ reqs' = [n \in DOMAIN reqs |-> [reqs[n] EXCEPT !.origin = NoOrigin]]
    /\ inbox' = <<>>
    /\ handled' = {}
    /\ mounts' = 1
    /\ currentStep' = 1
    /\ projectId' = Null
    /\ files' = <<>>
    /\ sessionProjects' = {}
    /\ templatesStep' = TemplatesInitial
    /\ deploymentStep' = DeploymentInitial
    /\ timers' = {}
    /\ chosenProvider' = "none"
    /\ UNCHANGED <<projects, currentId, uploadsDir, microtasks, draining,
                   clock, last, returnedIds, ai, analysis, requestLimit>>

WizardNext ==
    \/ SelectFiles
    \/ SubmitProject
    \/ CreateSucceededUpload
    \/ ProjectSubmitted
    \/ SubmitConfiguration
    \/ ConfigurationSubmitted
    \/ MutationFailed
    \/ Back
    \/ TemplatesTimer
    \/ TemplatesTimerOffline
    \/ GenerateTemplatesSettled
    \/ selectTemplate
    \/ closeTemplateDetails
    \/ DeployNow
    \/ startDeployment
    \/ StartDeploymentSucceeded
    \/ DeploymentTick
    \/ DeploymentBack
    \/ Reload
    \/ PostProjectRespond
    \/ PostUploadAfterGet
    \/ PostUploadRespond
    \/ PutConfigurationRespond
    \/ PostTemplatesAfterGet
    \/ PostTemplatesTimer
    \/ PostTemplatesRespond
    \/ PostDeployRespond

WizardSpec == Init /\ [][WizardNext]_vars

\* The interval keeps firing while it is set.
WizardFairSpec == WizardSpec /\ WF_vars(DeploymentTick)

\* The loading progress of a Templates (or AITemplates) component.
\* Math.random() * 15 lies in [0, 15); the increments are its whole values.
MaxIncrement == 14
Increments == 0..MaxIncrement

\* The updater the progress interval passes to setProgress.
progressUpdater(prev, increment) ==
    IF prev >= 100 THEN 100 ELSE prev + increment

\* The 300 ms interval of the component fires; it clears itself when it
\* finds the progress at 100 or above.
ProgressTick ==
    /\ templatesStep.progressInterval
    /\ \E increment \in Increments :
          templatesStep' =
              [templatesStep EXCEPT
                  !.progress = progressUpdater(@, increment),
                  !.progressInterval = templatesStep.progress < 100]
    /\ UNCHANGED <<handled, mounts, currentStep, projectId, files,
                   sessionProjects, deploymentStep, timers, chosenProvider>>
    /\ ServerIdle

LoadingNext == ProgressTick

LoadingSpec == Init /\ [][LoadingNext]_vars

\* A longer session of a user who selects no files and does not reload.
LongSessionInit == Constructed /\ requestLimit = MaxLongSessionRequests

LongSessionNext ==
    \/ SubmitProject
    \/ ProjectSubmitted
    \/ SubmitConfiguration
    \/ ConfigurationSubmitted
    \/ Back
    \/ TemplatesTimer
    \/ GenerateTemplatesSettled
    \/ selectTemplate
    \/ DeployNow
    \/ startDeployment
    \/ StartDeploymentSucceeded
    \/ DeploymentTick
    \/ DeploymentBack
    \/ PostProjectRespond
    \/ PutConfigurationRespond
    \/ PostTemplatesAfterGet
    \/ PostTemplatesTimer
    \/ PostTemplatesRespond
    \/ PostDeployRespond
    \/ PollDeploymentStatus
    \/ GetDeploymentStatusRespond
    \/ DeploymentStatusFetched

LongSessionSpec == LongSessionInit /\ [][LongSessionNext]_vars

\* The interval of Deployment keeps firing while it is set.
LongSessionFairSpec == LongSessionSpec /\ WF_vars(DeploymentTick)

---------------------------------------------------------------------------
(* The AI generators, each run on the text its own callLLM call returned.  *)

AIIdle ==
    UNCHANGED <<projects, currentId, uploadsDir, reqs, microtasks, draining,
                clock, last, returnedIds, inbox, wizardVars>>

Ran(g, response, result) ==
    /\ ai' = [ai EXCEPT ![g] = [response |-> response, result |-> result]]
    /\ AIIdle
    /\ UNCHANGED analysis

RunGenerateAWSTemplateAI ==
    \E response \in LLMTexts :
        Ran("generateAWSTemplateAI", response, generateAWSTemplateAI(response))

RunGenerateGCPTemplateAI ==
    \E response \in LLMTexts :
        Ran("generateGCPTemplateAI", response, generateGCPTemplateAI(response))

RunGenerateAzureTemplateAI ==
    \E response \in LLMTexts :
        Ran("generateAzureTemplateAI", response,
            generateAzureTemplateAI(response))

RunGenerateArchitectureAnalysis ==
    \E response \in LLMTexts :
        Ran("generateArchitectureAnalysis", response,
            generateArchitectureAnalysis(response))

RunGenerateRecommendations ==
    \E response \in LLMTexts :
        Ran("generateRecommendations", response,
            generateRecommendations(response))

AINext ==
    \/ RunGenerateAWSTemplateAI
    \/ RunGenerateGCPTemplateAI
    \/ RunGenerateAzureTemplateAI
    \/ RunGenerateArchitectureAnalysis
    \/ RunGenerateRecommendations

AISpec == Init /\ [][AINext]_vars

---------------------------------------------------------------------------
(* generateAllAIAnalysis: the five generators are called, each awaits its  *)
(* own callLLM, and Promise.all settles with them.                         *)

AnalysisIdle ==
    UNCHANGED <<projects, currentId, uploadsDir, reqs, microtasks, draining,
                clock, last, returnedIds, inbox, wizardVars, ai>>

\* generateAllAIAnalysis is called: the five generators run up to their await.
StartAllAIAnalysis ==
    /\ analysis.all.t = "none"
    /\ analysis' = [analysis EXCEPT !.all = Pending]
    /\ AnalysisIdle

\* The fetch of one generator settles: callLLM returns or throws, the
\* generator's promise settles, and Promise.all with it.
FetchSettles ==
    /\ analysis.all.t # "none"
    /\ \E g \in Generators, fetched \in LLMOutcomes :
           /\ analysis.settled[g].t = "pending"
           /\ LET settled == [analysis.settled EXCEPT
                                 ![g] = generatorPromise(g, fetched)]
              IN  analysis' =
                      [all |-> generateAllAIAnalysis(analysis.all, settled, g),
                       fetched |-> [analysis.fetched EXCEPT ![g] = fetched],
                       settled |-> settled]
    /\ AnalysisIdle

AnalysisNext ==
    \/ StartAllAIAnalysis
    \/ FetchSettles

AnalysisSpec == Init /\ [][AnalysisNext]_vars

---------------------------------------------------------------------------
(* Vocabulary of the properties. *)

\* The file list of a project, the empty list when it is null.
FilesOf(p) == IF p.uploadedFiles.t = "array" THEN p.uploadedFiles.v ELSE <<>>

IsPrefix(a, b) == Len(a) <= Len(b) /\ SubSeq(b, 1, Len(a)) = a

\* The path parameter is the decimal numeral of the id of a stored project.
Numeral(k) == numberToString(k)
NamesStored(idParam) == \E k \in DOMAIN projects : idParam = Numeral(k)

\* The step just taken sent a response.
Answered == last.status # 0
IdAddressed == {"upload", "configuration", "templates", "deploy", "status"}

\* The step being taken starts the handler of a request of one of the kinds.
Starts(kinds) == clock' = clock + 1 /\ last'.req.kind \in kinds

---------------------------------------------------------------------------
(* Properties of the server. *)

\* C1: the ids returned by successful create requests, in the order of the
\* responses and under every interleaving of the handlers, are strictly
\* increasing, and no two stored projects share an id (each is stored under
\* its own id, below the counter).
C1_IdsStrictlyIncreasing ==
    /\ \A i, j \in 1..Len(returnedIds) : i < j => returnedIds[i] < returnedIds[j]
    /\ \A k \in DOMAIN projects : projects[k].id = k /\ k < currentId
    /\ \A a, b \in DOMAIN projects :
           a # b => projects[a].id # projects[b].id
    /\ \A n \in DOMAIN reqs :
           reqs[n].kind = "create" =>
               /\ reqs[n].result.id < currentId
               /\ \A i \in 1..Len(returnedIds) : returnedIds[i] < reqs[n].result.id

\* Two creations were in flight at once; the first has been answered and the
\* second is still waiting for its continuation.
C1_Witness ==
    /\ Len(returnedIds) >= 1
    /\ draining
    /\ \E n \in DOMAIN reqs : reqs[n].kind = "create"

\* C2: updateProject called with an id that is not in the store returns
\* undefined and leaves the map, the id counter and the uploads directory as
\* they were; the configuration and deploy handlers then answer 404
\* "Project not found".
C2_MissingIdStep ==
    LET fr == last'.req IN
    ( /\ Starts({"configuration", "deploy"})
      /\ fr.kind = "configuration" => configurationSchemaAccepts(fr.body)
      /\ ~NamesStored(fr.idParam) )
    => /\ fr.result = Undefined
       /\ projects' = projects
       /\ currentId' = currentId
       /\ uploadsDir' = uploadsDir

C2_MissingIdAnswer ==
    ( /\ Answered
      /\ last.req.kind \in {"configuration", "deploy"}
      /\ last.req.pc = "respond"
      /\ last.req.result = Undefined )
    => /\ last.status = 404
       /\ last.payload = ErrorBody("Project not found")

C2_UpdateMissingIsNotFound ==
    [][C2_MissingIdStep]_vars /\ []C2_MissingIdAnswer

\* A deploy request for an id the store does not hold was answered 404 while
\* the store holds a project.
C2_Witness ==
    /\ Answered /\ last.status = 404
    /\ last.req.kind = "deploy"
    /\ DOMAIN projects # {}

\* C3: an upload appends: every step leaves each project's earlier file list
\* a prefix of its later one, and the step of an upload that writes leaves
\* the list it found followed by the request's file names.
C3_Step ==
    \A id \in DOMAIN projects :
        /\ IsPrefix(FilesOf(projects[id]), FilesOf(projects'[id]))
        /\ ( /\ last'.req.kind = "upload"
             /\ last'.req.result # Undefined
             /\ last'.req.result.id = id
             /\ projects'[id] # projects[id] )
           => FilesOf(projects'[id]) =
                  FilesOf(projects[id]) \o last'.req.filePaths

C3_UploadAppends == [][C3_Step]_vars

\* C4: the state after the configuration handler's updateProject call, and
\* the 200 answer: the project's configuration is the validated body, with
\* the schema's keys and no other.
C4_ConfigurationReplaced ==
    ( /\ last.req.kind = "configuration"
      /\ last.req.pc = "respond"
      /\ last.req.result # Undefined )
    => LET validated == configurationSchemaParse(last.req.body) IN
       /\ last.req.result.configuration = Obj(validated)
       /\ DOMAIN last.req.result.configuration.v = ConfigKeys
       /\ ~Answered =>
              projects[last.req.result.id].configuration = Obj(validated)
       /\ Answered =>
              /\ last.status = 200
              /\ last.payload.configuration = Obj(validated)

\* The project created with a configuration of its own (FullBody, with the
\* key "legacy") has just had its configuration set by a PUT.
C4_Witness ==
    /\ last.req.kind = "configuration"
    /\ last.req.pc = "respond"
    /\ ~Answered
    /\ last.req.result # Undefined
    /\ last.req.result.name = Str("blog")

\* C5: a project is created 'pending'; its status changes only in the step
\* of a deploy request, from 'pending' to 'deploying'; a deploy request on a
\* stored project leaves it 'deploying'; once 'deploying' it stays so.
C5_Step ==
    \A id \in DOMAIN projects' :
        IF id \notin DOMAIN projects
        THEN projects'[id].deploymentStatus = "pending"
        ELSE LET before == projects[id].deploymentStatus
                 after == projects'[id].deploymentStatus
             IN  /\ before = "deploying" => after = "deploying"
                 /\ before # after =>
                        /\ before = "pending" /\ after = "deploying"
                        /\ last'.req.kind = "deploy"
                 /\ ( /\ Starts({"deploy"})
                      /\ last'.req.idParam = Numeral(id) )
                    => after = "deploying"

C5_StatusOnlyAdvances == [][C5_Step]_vars

\* A request of another kind has written to a project that is 'deploying'.
C5_Witness ==
    /\ last.req.kind \in {"upload", "configuration"}
    /\ last.req.result # Undefined
    /\ ~Answered
    /\ projects[last.req.result.id].deploymentStatus = "deploying"

\* C6: a request answered with an error status has persisted nothing: none
\* of its files is in the uploads directory and no createProject or
\* updateProject call of its handler took effect.
C6_ErrorsPersistNothing ==
    (Answered /\ last.status >= 400)
    => /\ \A i \in 1..Len(last.req.files) :
              FileName(last.req.n, i) \notin uploadsDir
       /\ last.req.result = Undefined

ReachedLookup(fr) ==
    /\ fr.kind = "configuration" => configurationSchemaAccepts(fr.body)
    /\ fr.kind = "upload" => multerError(fr.files) = ""

C8_Answer ==
    (Answered /\ last.req.kind = "templates" /\ last.status = 200)
    => /\ DOMAIN last.payload = {"aws", "gcp", "azure"}
       /\ \A k \in DOMAIN last.payload :
              /\ DOMAIN last.payload[k] =
                     {"name", "code", "estimatedCost", "provider"}
              /\ last.payload[k].provider = k
              /\ last.payload[k].estimatedCost \in Nat
              /\ last.payload[k].code.t = "string"
              /\ last.payload[k].name \in STRING

C8_Step ==
    last'.req.kind = "templates"
    => /\ projects' = projects
       /\ currentId' = currentId
       /\ uploadsDir' = uploadsDir

C8_TemplatesAnswer == []C8_Answer /\ [][C8_Step]_vars

C8_Witness ==
    /\ Answered /\ last.status = 200
    /\ last.req.kind = "templates"

\* C9: no stored project has more than 5 entries in uploadedFiles.
C9_AtMostFiveFiles ==
    \A id \in DOMAIN projects : Len(FilesOf(projects[id])) <= UploadMaxCount

\* The keys on which two records of a project differ.
ChangedKeys(p, q) ==
    {k \in DOMAIN p \cup DOMAIN q :
        \/ k \notin DOMAIN p \cap DOMAIN q
        \/ p[k] # q[k]}

\* The fields each update endpoint owns.
OwnFields(kind) ==
    CASE kind = "upload" -> {"uploadedFiles"}
      [] kind = "configuration" -> {"configuration"}
      [] kind = "deploy" -> {"selectedProvider", "deploymentStatus"}
      [] OTHER -> {}

CreationFields ==
    {"id", "name", "description", "techStack", "expectedUsers", "createdAt"}

\* C11: a step changes a stored project only on the fields owned by the
\* endpoint of the request taking the step, and only the project the request
\* addresses; id, name, description, techStack, expectedUsers and createdAt
\* never change after creation.
C11_Step ==
    \A id \in DOMAIN projects \cap DOMAIN projects' :
        LET changed == ChangedKeys(projects[id], projects'[id]) IN
        /\ changed \cap CreationFields = {}
        /\ changed # {} =>
               /\ changed \subseteq OwnFields(last'.req.kind)
               /\ parseInt(last'.req.idParam) = Num(id)

C11_PartialUpdates == [][C11_Step]_vars

\* A deploy request has just written to one of two stored projects.
C11_Witness ==
    /\ last.req.kind = "deploy"
    /\ ~Answered
    /\ last.req.result # Undefined
    /\ Cardinality(DOMAIN projects) = 2

\* C12: the deployment-status handler reads the project the id names when it
\* starts; when there is one it answers 200 with the status it read, and a
\* progress in 0..99 when that status is 'deploying', exactly 100 otherwise;
\* no step of a status request changes the store.
C12_Lookup ==
    Starts({"status"}) =>
        last'.req.project = getProject(parseInt(last'.req.idParam))

C12_Answer ==
    ( /\ Answered
      /\ last.req.kind = "status"
      /\ last.req.project # Undefined )
    => /\ last.status = 200
       /\ DOMAIN last.payload = {"status", "progress"}
       /\ last.payload.status = last.req.project.deploymentStatus
       /\ last.payload.progress \in 0..100
       /\ last.payload.status = "deploying" => last.payload.progress \in 0..99
       /\ last.payload.status # "deploying" => last.payload.progress = 100

C12_Step ==
    last'.req.kind = "status"
    => /\ projects' = projects
       /\ currentId' = currentId
       /\ uploadsDir' = uploadsDir

C12_StatusAnswer == []C12_Answer /\ [][C12_Lookup /\ C12_Step]_vars

\* The status of a project that was never deployed was asked for.
C12_Witness ==
    /\ Answered /\ last.status = 200
    /\ last.req.kind = "status"
    /\ last.payload.status = "pending"
    /\ last.payload.progress = 100

\* C13: the selectedProvider of every stored project is null or one of
\* 'aws', 'gcp', 'azure'.
KnownProviders == {Str("aws"), Str("gcp"), Str("azure")}

C13_ProviderIsKnown ==
    \A id \in DOMAIN projects :
        projects[id].selectedProvider \in KnownProviders \cup {Null}

\* Projects that share the name of p and differ from it in the description,
\* the configuration, the uploaded files and the status.
ProjectVariants(p) ==
    {[p EXCEPT !.description = d, !.configuration = c,
               !.uploadedFiles = f, !.deploymentStatus = s] :
        d \in {p.description, Str("something else entirely")},
        c \in {p.configuration, Null, Obj(ConfigA)},
        f \in {p.uploadedFiles, Null, Arr(<<Str("seed.png")>>)},
        s \in {"pending", "deploying"}}

C17_Step ==
    \A id \in DOMAIN projects :
        id \in DOMAIN projects' /\ projects'[id].id = id

C17_Returned ==
    \A i \in 1..Len(returnedIds) :
        /\ getProject(Num(returnedIds[i])) # Undefined
        /\ getProject(Num(returnedIds[i])).id = returnedIds[i]

C17_NeverDeleted == [][C17_Step]_vars /\ []C17_Returned

\* The first project was returned, then deployed, and a second was created.
C17_Witness ==
    /\ Len(returnedIds) >= 1
    /\ Cardinality(DOMAIN projects) = 2
    /\ projects[returnedIds[1]].deploymentStatus = "deploying"

\* C18: a project enters the store with deploymentStatus 'pending', and the
\* record a create request builds and answers with is 'pending', whatever
\* the request body holds.
C18_Step ==
    \A id \in DOMAIN projects' \ DOMAIN projects :
        projects'[id].deploymentStatus = "pending"

C18_Created ==
    /\ \A n \in DOMAIN reqs :
           reqs[n].kind = "create" => reqs[n].result.deploymentStatus = "pending"
    /\ (Answered /\ last.req.kind = "create" /\ last.status = 200)
       => last.payload.deploymentStatus = "pending"

C18_CreatedPending == [][C18_Step]_vars /\ []C18_Created

\* A create request whose body asks for 'deploying' was answered 200.
C18_Witness ==
    /\ Answered /\ last.status = 200
    /\ last.req.kind = "create"
    /\ Get(last.req.body, "deploymentStatus") = Str("deploying")

\* The elements of a sequence.
Range(s) == {s[i] : i \in 1..Len(s)}

\* C19: when an upload writes its list while another upload to the same
\* project is in flight, the list it leaves holds every name that was stored
\* before and the names of its own files.
C19_Step ==
    ( /\ last'.req.kind = "upload"
      /\ last'.req.pc = "respond"
      /\ projects' # projects
      /\ \E n \in DOMAIN reqs :
             /\ n # last'.req.n
             /\ reqs[n].kind = "upload"
             /\ reqs[n].idParam = last'.req.idParam )
    => LET id == last'.req.result.id IN
       /\ Range(FilesOf(projects[id])) \subseteq Range(FilesOf(projects'[id]))
       /\ Range(last'.req.filePaths) \subseteq Range(FilesOf(projects'[id]))

C19_NoUploadLost == [][C19_Step]_vars

---------------------------------------------------------------------------
(* Properties of the AI generators. *)

\* The generator ran on a text that JSON.parse rejects.
RanOnUnparsable(g) ==
    /\ ai[g] # NotRun
    /\ ~JSONParse(ai[g].response).ok

\* The fallback of a template generator: its own provider, the raw text as
\* templateCode, the fixed cost and the fixed, non-empty feature lists.
IsTemplateFallback(run, provider, cost, fixed) ==
    /\ run.result.provider = provider
    /\ run.result.templateCode = Text(run.response)
    /\ run.result.estimatedCost = Num(cost)
    /\ \A k \in {"optimizations", "securityConsiderations",
                  "scalabilityFeatures"} :
           /\ run.result[k] = fixed[k]
           /\ run.result[k].t = "array"
           /\ Len(run.result[k].v) > 0

\* C15: a generator that ran on a text JSON.parse rejects returned its
\* static fallback: for the template generators the generator's own
\* provider, the raw text, the cost 250 (aws), 200 (gcp), 290 (azure) and
\* the fixed non-empty lists; for the analysis and the recommendations the
\* fixed objects.
C15_FallbackOnUnparsable ==
    /\ RanOnUnparsable("generateAWSTemplateAI") =>
           IsTemplateFallback(ai["generateAWSTemplateAI"], "aws", 250,
                              AWSFallback(<<>>))
    /\ RanOnUnparsable("generateGCPTemplateAI") =>
           IsTemplateFallback(ai["generateGCPTemplateAI"], "gcp", 200,
                              GCPFallback(<<>>))
    /\ RanOnUnparsable("generateAzureTemplateAI") =>
           IsTemplateFallback(ai["generateAzureTemplateAI"], "azure", 290,
                              AzureFallback(<<>>))
    /\ RanOnUnparsable("generateArchitectureAnalysis") =>
           ai["generateArchitectureAnalysis"].result = ArchitectureFallback
    /\ RanOnUnparsable("generateRecommendations") =>
           ai["generateRecommendations"].result = RecommendationsFallback

\* Every generator has run on a text that is not JSON: prose, a fenced
\* object or a truncated one.
C15_Witness ==
    /\ \A g \in Generators : RanOnUnparsable(g)
    /\ ai["generateAWSTemplateAI"].response = FencedText
    /\ ai["generateGCPTemplateAI"].response = TruncatedText
    /\ ai["generateAzureTemplateAI"].response = ProseText

\* The provider each template generator answers for.
TemplateGenerators ==
    [generateAWSTemplateAI |-> "aws", generateGCPTemplateAI |-> "gcp",
     generateAzureTemplateAI |-> "azure"]

\* C21: every template a template generator returned conforms to
\* aiTemplateSchema and names the generator's own provider, whatever text
\* the LLM answered with.
C21_TemplatesConform ==
    \A g \in DOMAIN TemplateGenerators :
        ai[g] # NotRun =>
            /\ aiTemplateSchemaAccepts(ai[g].result)
            /\ ai[g].result.provider = TemplateGenerators[g]

\* The LLM request failed: the fetch was rejected, the status was not 2xx, or
\* the body has none of the three recognised shapes.
RequestFailed(fetched) ==
    fetched \notin {ChatAnswer, CompletionAnswer, TextAnswer}

FailureMessages ==
    {"fetch failed", "LLM API error: 500", "Unexpected token",
     "Cannot read properties of null", "trim is not a function",
     "Invalid LLM response format"}

SettledAs(t) == {g \in Generators : analysis.settled[g].t = t}

\* C22: a generator whose LLM request failed is rejected with callLLM's
\* 'Failed to generate AI response: ...' error and returns no fallback; and
\* generateAllAIAnalysis is rejected as soon as one generator is, and is
\* fulfilled only with all five results.
C22_AllOrNothing ==
    /\ \A g \in Generators \ SettledAs("pending") :
           RequestFailed(analysis.fetched[g]) =>
               /\ analysis.settled[g].t = "rejected"
               /\ analysis.settled[g].value = Undefined
               /\ \E m \in FailureMessages :
                      analysis.settled[g].error =
                          "Failed to generate AI response: " \o m
    /\ SettledAs("rejected") # {} <=> analysis.all.t = "rejected"
    /\ analysis.all.t = "rejected" =>
           /\ analysis.all.value = Undefined
           /\ \E g \in SettledAs("rejected") :
                  analysis.all.error = analysis.settled[g].error
    /\ analysis.all.t = "fulfilled" <=>
           (analysis.all.t # "none" /\ SettledAs("fulfilled") = Generators)
    /\ analysis.all.t = "fulfilled" =>
           /\ analysis.all.value = analysisResult(analysis.settled)
           /\ \A g \in Generators : analysis.settled[g].value # Undefined

\* Four generators have returned their results, one LLM request failed, and
\* the analysis was rejected.
C22_Witness ==
    /\ analysis.all.t = "rejected"
    /\ Cardinality(SettledAs("fulfilled")) = 4
    /\ \E g \in SettledAs("rejected") : analysis.fetched[g] = ErrorAnswer

---------------------------------------------------------------------------
(* Properties of the wizard. *)

\* C10: between page load and page reload at most one project is created on
\* the server, and the wizard's projectId, once set, is that project.
C10_OneProjectPerSession ==
    /\ Cardinality(sessionProjects) <= 1
    /\ projectId # Null => projectId.v \in sessionProjects

\* C16: once the deployment has started, the interval's callback runs at
\* most six times; deploymentComplete is true exactly when it has run six
\* times; the interval is then cleared and no step changes the step index,
\* the steps, the logs or the progress any more; and while the interval keeps
\* firing the deployment does become complete.
C16_Bounded ==
    /\ deploymentStep.ticks <= 6
    /\ deploymentStep.deploymentComplete <=>
           (deploymentStep.deploymentStarted /\ deploymentStep.ticks = 6)
    /\ deploymentStep.deploymentComplete => ~deploymentStep.interval
    /\ (deploymentStep.deploymentStarted /\ ~deploymentStep.deploymentComplete)
           => deploymentStep.interval

C16_Settled ==
    (deploymentStep.deploymentComplete /\ deploymentStep'.deploymentComplete)
    => deploymentStep' = deploymentStep

C16_Eventually ==
    deploymentStep.deploymentStarted
        ~> (deploymentStep.deploymentComplete \/ ~deploymentStep.deploymentStarted)

C16_DeploymentCompletes ==
    []C16_Bounded /\ [][C16_Settled]_vars /\ C16_Eventually

\* The simulation has run to its end.
C16_Witness ==
    /\ deploymentStep.deploymentStarted
    /\ deploymentStep.deploymentComplete
    /\ deploymentStep.currentStepIndex = 5
    /\ deploymentStep.progress = 100

\* C20: once the wizard's deployment has started, the selectedProvider the
\* server holds for the wizard's project is the provider of the template
\* that was selected when Deploy Now was pressed.
C20_DeploysSelectedProvider ==
    deploymentStep.deploymentStarted
    => projects[projectId.v].selectedProvider = Str(chosenProvider)

\* The positions of the step list that hold status s.
StepsWith(d, s) == {k \in 1..Len(d.steps) : d.steps[k] = s}

StatusRank(s) ==
    CASE s = "pending" -> 0 [] s = "in-progress" -> 1 [] s = "completed" -> 2

\* Completed steps, then one step in progress where the step index says
\* (steps[currentStepIndex + 1] of the code), then pending steps.
C23_Shape ==
    ~deploymentStep.deploymentComplete =>
        LET d == deploymentStep
            inProgress == d.currentStepIndex + 2
        IN  /\ StepsWith(d, "in-progress") = {inProgress}
            /\ StepsWith(d, "completed") = 1..(inProgress - 1)
            /\ StepsWith(d, "pending") = (inProgress + 1)..Len(d.steps)

\* While the deployment runs no step's status moves back.
C23_Forward ==
    (deploymentStep.deploymentStarted /\ deploymentStep'.deploymentStarted) =>
        \A k \in 1..Len(deploymentStep.steps) :
            StatusRank(deploymentStep'.steps[k])
                >= StatusRank(deploymentStep.steps[k])

\* C23: before completion the step list is a prefix of completed steps, one
\* step in progress at index currentStepIndex + 1 and pending steps after
\* it, and a step's status only moves pending -> in-progress -> completed.
C23_StepListShape == []C23_Shape /\ [][C23_Forward]_vars

\* C24: when the simulation is complete every one of the six steps,
\* the last included, is completed.
C24_AllStepsCompleted ==
    deploymentStep.deploymentComplete =>
        StepsWith(deploymentStep, "completed") = 1..Len(deploymentSteps)

\* The wizard's project is set and the server stores it.
ProjectStored == projectId # Null /\ projectId.v \in DOMAIN projects

C25_Inv ==
    /\ currentStep \in 1..4
    /\ currentStep >= 2 => ProjectStored

\* A step that leaves step 1 runs the callback of a successful response,
\* and that of the upload when the form was submitted with files.
C25_Step ==
    (currentStep = 1 /\ currentStep' # 1) =>
        /\ projectId' # Null /\ projectId'.v \in DOMAIN projects'
        /\ \E i \in handled' \ handled :
               /\ inbox[i].status = 200
               /\ inbox[i].origin.files # <<>> =>
                      inbox[i].origin.mutation = "uploadFilesMutation"

\* C25: currentStep is in 1..4; from step 2 on the wizard's projectId is
\* set and names a project of the server's store; and step 1 is left only
\* by the callback of a successful create (or, with files, upload) response.
C25_ProjectBeforeStepTwo == []C25_Inv /\ [][C25_Step]_vars

\* The user went back to step 1, created a second project with files,
\* and is past step 1 again.
C25_Witness ==
    /\ currentStep >= 2
    /\ projectId = Num(2)
    /\ projects[2].uploadedFiles.t = "array"

\* C26: at step 3 and at step 4 the server holds a configuration for the
\* wizard's current project.
C26_ConfiguredBeforeTemplates ==
    currentStep \in {3, 4} =>
        /\ ProjectStored
        /\ projects[projectId.v].configuration # Null

\* The responses to the templates request of the mounted Templates
\* component whose callback has run.
GenerationHandled ==
    {i \in handled : /\ inbox[i].origin.mutation = "generateTemplatesMutation"
                     /\ inbox[i].origin.instance = mounts}

GenerationSucceeded == \E i \in GenerationHandled : inbox[i].status = 200
GenerationFailed == \E i \in GenerationHandled : inbox[i].status # 200

\* A step from step 3 to step 4 is taken with the templates of a successful
\* generation, loading false and one of those templates selected.
C27_Step ==
    (currentStep = 3 /\ currentStep' = 4) =>
        /\ GenerationSucceeded
        /\ ~templatesStep.loading
        /\ \E i \in GenerationHandled :
               \E k \in DOMAIN inbox[i].payload :
                   templatesStep.selectedTemplate = inbox[i].payload[k]

\* In a visit of step 3 whose generation failed nothing is selected, and no
\* step leads to step 4.
C27_FailedVisit ==
    (currentStep = 3 /\ GenerationFailed) =>
        /\ templatesStep.selectedTemplate = Null
        /\ templatesStep.templates = EmptyObject
        /\ ~GenerationSucceeded

C27_FailedStep ==
    (currentStep = 3 /\ GenerationFailed) => currentStep' # 4

\* C27: the wizard moves from step 3 to step 4 only after a successful
\* generation, with loading false and one of the returned templates
\* selected; in a visit whose generation failed no template is selected and
\* step 4 is not reached.
C27_DeployOnlyGenerated ==
    [][C27_Step /\ C27_FailedStep]_vars /\ []C27_FailedVisit

\* After a visit that led to step 4 the user came back to step 3 and the
\* generation of this visit failed.
C27_Witness ==
    /\ currentStep = 3
    /\ GenerationFailed
    /\ ~templatesStep.loading
    /\ chosenProvider # "none"

\* The page was loaded again (Start New Project, or the browser's reload).
Reloaded == mounts' = 1 /\ currentStep' = 1 /\ inbox' = <<>>

\* With the deployment started the wizard stays at step 4 until the page is
\* loaded again.
C28_Stays ==
    deploymentStep.deploymentStarted => (currentStep' = 4 \/ Reloaded)

\* deploymentStarted becomes true with the wizard's project 'deploying' on
\* the server.
C28_Accepted ==
    (~deploymentStep.deploymentStarted /\ deploymentStep'.deploymentStarted) =>
        /\ projectId' # Null /\ projectId'.v \in DOMAIN projects'
        /\ projects'[projectId'.v].deploymentStatus = "deploying"

\* C28: once deploymentStarted is true the wizard does not leave step 4, and
\* deploymentStarted becomes true only when the server has accepted the
\* deploy request, the status of the wizard's project being 'deploying'.
C28_StaysAtDeployment ==
    /\ [](deploymentStep.deploymentStarted => currentStep = 4)
    /\ [][C28_Stays /\ C28_Accepted]_vars

\* The server's view of the wizard's project is still 'deploying'.
ServerDeploying ==
    ProjectStored /\ projects[projectId.v].deploymentStatus = "deploying"

\* A status request is sent only with the deployment started and not complete.
C29_PollsWhileDeploying ==
    Starts({"status"}) =>
        (deploymentStep.deploymentStarted /\ ~deploymentStep.deploymentComplete)

\* C29: the wizard sends a status request only while deploymentStarted is
\* true and deploymentComplete is false; with the client's completion shown
\* the server still holds 'deploying' for the project; and the simulation
\* completes whether or not a status request was sent or answered.
C29_SimulationIgnoresServer ==
    /\ [][C29_PollsWhileDeploying]_vars
    /\ [](deploymentStep.deploymentComplete => ServerDeploying)
    /\ deploymentStep.deploymentStarted
           ~> ((deploymentStep.deploymentComplete /\ ServerDeploying)
               \/ ~deploymentStep.deploymentStarted)

\* The simulation is complete and the last status polled said 'deploying'
\* with progress 0.
C29_Witness ==
    /\ deploymentStep.deploymentComplete
    /\ deploymentStep.deploymentStatus # Undefined
    /\ deploymentStep.deploymentStatus.status = "deploying"
    /\ deploymentStep.deploymentStatus.progress = 0

---------------------------------------------------------------------------
(* Properties of the loading progress. *)

C30_InRange == templatesStep.progress \in 0..100

C30_Step == templatesStep'.progress >= templatesStep.progress

\* C30: the loading progress of step 3 is always within 0..100 and never
\* decreases, whatever increments are drawn.
C30_ProgressBounded == []C30_InRange /\ [][C30_Step]_vars

====
